---- MODULE Spec2Model ----
(***************************************************************************)
(* A model of the tiebaCrawler pipeline: the durable store (forum          *)
(* watermark, threads, image tasks, relay tasks), the incremental crawl    *)
(* run, the relay run with its claim/release queue, and the in-memory job  *)
(* tracker of the API.                                                     *)
(*                                                                         *)
(* Times are epoch seconds.  The forum threads of the model are created    *)
(* one hour apart (thread t at t * 3600), so that the window arithmetic of *)
(* the crawl (hours, seconds) is the code's own.                           *)
(***************************************************************************)
EXTENDS Integers, Sequences, FiniteSets, TLC

VARIABLES
    forum_state,   \* the forum_state row of the crawled forum, or NoRow
    threads,       \* threads table: tid -> row | NoRow
    images,        \* images table: <<tid, url>> -> row | NoRow
    relay_tasks,   \* relay_tasks table: a sequence, the index is the row id
    crawl,         \* the locals of the crawl_threads run in progress
    crawl_runs,    \* number of crawl runs started so far
    relay,         \* the locals of each relay_labeled_threads run
    relay_runs,    \* number of relay runs started so far
    call,          \* the direct Repo or JobManager call being answered
    jobs,          \* JobManager._jobs: a sequence, the index is the job id
    runners,       \* the position of the _runner task of each job
    loop           \* the event loop of the API process: its state and clock

vars == <<forum_state, threads, images, relay_tasks, crawl, crawl_runs,
          relay, relay_runs, call, jobs, runners, loop>>

-----------------------------------------------------------------------------
(* Bounds of the model *)

MaxTid == 3
MaxCrawlRuns == 2
MaxPagesBound == 2
MaxRelayRuns == 2
MaxPosts == 2
MaxJobs == 2
MaxTime == 1

-----------------------------------------------------------------------------
(* Values *)

Null == "<null>"
NullInt == -1
NoRow == [absent |-> TRUE]

Tids == 1..MaxTid

Min(a, b) == IF a < b THEN a ELSE b
Max(a, b) == IF a > b THEN a ELSE b

SecondsPerHour == 3600

\* the processes that can run relay_labeled_threads, each on its connection
RelayProcs == {1, 2}

IdleRelay ==
    [pc |-> "idle", forum |-> "", category |-> Null, include_error |-> FALSE,
     dry_run |-> FALSE, mode |-> "", max_posts |-> 0, lookback_days |-> 0,
     enqueued |-> 0, missing_target |-> 0, rows |-> <<>>, idx |-> 0,
     reset_ids |-> {}, peers |-> {}, error |-> Null]

CrawlForum == "f1"

\* page size rn the runs are called with
PageSize == 2

-----------------------------------------------------------------------------
(* The forum as the protocol client shows it *)

\* create time of thread t: one per hour
CreateTimeOf(t) == t * SecondsPerHour

\* image urls embedded in thread t
ImgUrlsOf(t) == IF t % 2 = 1 THEN <<"a">> ELSE <<>>

Urls == {"a"}

\* A title, by what the detection reads of it: the matches of the year/week
\* pattern it holds, from left to right, each with the year and week digits
\* matched, and the keywords it contains.
Title(matches, kws) == [matches |-> matches, kws |-> kws]

YearWeek(y, w) == [year |-> y, week |-> w]

PlainTitle == Title(<<>>, {})

\* thread 1 is titled as the weekly collection thread of category "A"
TitleOf(t) == IF t = 1 THEN Title(<<YearWeek(1970, 1)>>, {"weekly"}) ELSE PlainTitle

\* settings.collection_rules: category -> keywords, in configured order
CollectionRules ==
    << [cat |-> "A", keywords |-> <<"weekly">>],
       [cat |-> "B", keywords |-> <<"digest", "weekly">>] >>

\* a thread object as aiotieba returns it
Th(t, top) ==
    [tid |-> t, fname |-> CrawlForum, title |-> TitleOf(t),
     create_time |-> CreateTimeOf(t), is_top |-> top, imgs |-> ImgUrlsOf(t)]

RECURSIVE Descending(_)
\* the members of the set S of thread ids, newest first
Descending(S) ==
    IF S = {} THEN <<>>
    ELSE LET t == CHOOSE x \in S : \A y \in S : y <= x
         IN  <<t>> \o Descending(S \ {t})

ThSeq(ts, top) == [i \in 1..Len(ts) |-> Th(ts[i], top)]

\* The listing of a forum holding the pinned threads P and the other threads
\* N: the pinned ones first, then the others in descending create time
\* (client.py asks for sort=ThreadSortType.CREATE).
Listing(P, N) == ThSeq(Descending(P), TRUE) \o ThSeq(Descending(N), FALSE)

Listings ==
    {Listing(pn[1], pn[2]) :
        pn \in {x \in (SUBSET Tids) \X (SUBSET Tids) : x[1] \cap x[2] = {}}}

\* objs of page pn (1-based) of a listing
PageObjs(listing, pn) ==
    SubSeq(listing, (pn - 1) * PageSize + 1, Min(pn * PageSize, Len(listing)))

IsLastPage(listing, pn) == pn * PageSize >= Len(listing)

-----------------------------------------------------------------------------
(* tieba/mappers.py *)

MaxWeek == 53

\* (year, week) of a title, read from the leftmost match (_YEAR_WEEK_RE.search);
\* NullInt stands for None
parse_year_week_from_title(title) ==
    IF title.matches = <<>> THEN <<NullInt, NullInt>>
    ELSE LET m == Head(title.matches)
         IN  IF m.week < 1 \/ m.week > MaxWeek THEN <<m.year, NullInt>>
             ELSE <<m.year, m.week>>

RECURSIVE FirstRuleMatch(_, _, _)
\* the first category, in rule order from i on, with a keyword in the title
FirstRuleMatch(title, rules, i) ==
    IF i > Len(rules) THEN Null
    ELSE IF \E k \in 1..Len(rules[i].keywords) :
                rules[i].keywords[k] # "" /\ rules[i].keywords[k] \in title.kws
         THEN rules[i].cat
         ELSE FirstRuleMatch(title, rules, i + 1)

\* <<is_collection, category, year, week>>
detect_collection_from_title(title, rules) ==
    LET yw == parse_year_week_from_title(title)
        cat == FirstRuleMatch(title, rules, 1)
    IN  IF yw[1] = NullInt \/ yw[2] = NullInt
        THEN <<FALSE, Null, NullInt, NullInt>>
        ELSE IF cat # Null THEN <<TRUE, cat, yw[1], yw[2]>>
        ELSE <<FALSE, Null, yw[1], yw[2]>>

\* the row the crawl builds from a thread object
thread_to_row(th) ==
    [tid |-> th.tid, fname |-> th.fname, title |-> th.title,
     create_time |-> th.create_time,
     is_top |-> IF th.is_top THEN 1 ELSE 0,
     process_status |-> "new",
     category |-> Null, tags_json |-> Null,
     thread_role |-> "normal",
     collection_year |-> NullInt, collection_week |-> NullInt]

\* the image rows of a thread object, in order
image_tasks_from_thread(th) ==
    [k \in 1..Len(th.imgs) |-> [tid |-> th.tid, url |-> th.imgs[k]]]

-----------------------------------------------------------------------------
(* db/repo.py: forum state, threads, images *)

set_forum_state(ts, stamp) == [last_crawl_ts |-> ts, updated_at |-> stamp]

\* COALESCE(excluded.x, stored.x)
Coalesce(new, old) == IF new # Null THEN new ELSE old
CoalesceInt(new, old) == IF new # NullInt THEN new ELSE old

\* CASE WHEN excluded.x IS NOT NULL AND excluded.x != '' THEN excluded.x ELSE stored.x
AlwaysOverwrite(new, old) == new

KeepUnlessNonEmpty(new, old) == IF new # Null /\ new # "" THEN new ELSE old

TakeIncomingRole(new, old) == new

\* CASE WHEN excluded.thread_role = 'collection' THEN 'collection' ELSE stored
UpgradeOnly(new, old) == IF new = "collection" THEN "collection" ELSE old

\* the row upsert_thread leaves for old (NoRow: no conflict) and incoming t
UpsertThreadRow(old, t) ==
    IF old = NoRow THEN t
    ELSE [tid |-> old.tid,
          fname |-> t.fname, title |-> t.title,
          create_time |-> t.create_time, is_top |-> t.is_top,
          process_status |-> Coalesce(t.process_status, old.process_status),
          category |-> KeepUnlessNonEmpty(t.category, old.category),
          tags_json |-> KeepUnlessNonEmpty(t.tags_json, old.tags_json),
          thread_role |-> UpgradeOnly(t.thread_role, old.thread_role),
          collection_year |-> CoalesceInt(t.collection_year, old.collection_year),
          collection_week |-> CoalesceInt(t.collection_week, old.collection_week)]

upsert_thread_lost(tbl, t) == tbl

upsert_thread(tbl, t) == [tbl EXCEPT ![t.tid] = UpsertThreadRow(tbl[t.tid], t)]

\* UPDATE threads SET category=?, tags_json=COALESCE(?, tags_json) WHERE tid=?
set_thread_category(tbl, tid, category, tags_json) ==
    IF tbl[tid] = NoRow THEN tbl
    ELSE [tbl EXCEPT ![tid].category = category,
                     ![tid].tags_json = Coalesce(tags_json, tbl[tid].tags_json)]

\* UPDATE threads SET thread_role='collection', category=?, ... WHERE tid=?
mark_thread_as_collection(tbl, tid, category, year, week) ==
    IF tbl[tid] = NoRow THEN tbl
    ELSE [tbl EXCEPT ![tid].thread_role = "collection",
                     ![tid].category = category,
                     ![tid].collection_year = year,
                     ![tid].collection_week = week]

\* status and local_path of a new images row (column defaults of the schema)
NewImageRow == [status |-> "PENDING", local_path |-> Null]

upsert_image_task_replace(tbl, img) ==
    [tbl EXCEPT ![<<img.tid, img.url>>] = NewImageRow]

\* ON CONFLICT(tid, url) touches neither status nor local_path
upsert_image_task(tbl, img) ==
    LET key == <<img.tid, img.url>>
    IN  IF tbl[key] = NoRow THEN [tbl EXCEPT ![key] = NewImageRow] ELSE tbl

RECURSIVE UpsertImages(_, _, _)
UpsertImages(tbl, imgs, k) ==
    IF k > Len(imgs) THEN tbl
    ELSE UpsertImages(upsert_image_task(tbl, imgs[k]), imgs, k + 1)

-----------------------------------------------------------------------------
(* jobs/crawl_threads.py *)

\* int(time.time()) of a run: the create time of the newest forum thread
NowTs == CreateTimeOf(MaxTid)

\* last_crawl_ts as the run reads it: None for no row or a zero value
ReadLastCrawlTs(state) ==
    IF state # NoRow /\ state.last_crawl_ts # 0 THEN state.last_crawl_ts ELSE NullInt

\* since_ts: the window start
WindowStart(last, now, initial_hours, overlap_seconds) ==
    IF last = NullInt THEN now - initial_hours * SecondsPerHour
    ELSE Max(0, last - overlap_seconds)

InitMaxSeenZero(last) == 0

\* max_seen_ts = last_crawl_ts or 0
InitMaxSeen(last) == IF last = NullInt THEN 0 ELSE last

\* the row upserted for a thread object: thread_to_row plus the detection
CrawlRow(th) ==
    LET row == thread_to_row(th)
        d == detect_collection_from_title(row.title, CollectionRules)
    IN  IF d[1] /\ d[2] # Null /\ d[2] # "" /\ d[3] # NullInt /\ d[3] # 0
              /\ d[4] # NullInt /\ d[4] # 0
        THEN [row EXCEPT !.thread_role = "collection", !.category = d[2],
                         !.collection_year = d[3], !.collection_week = d[4]]
        ELSE row

ProcessThreadPinnedCounted(acc, th, since_ts) ==
    LET seen == [acc EXCEPT !.any_candidate = TRUE,
                            !.max_seen_ts = Max(acc.max_seen_ts, th.create_time)]
    IN  IF th.create_time > since_ts
        THEN [seen EXCEPT
                !.all_old = FALSE,
                !.threads = upsert_thread(seen.threads, CrawlRow(th)),
                !.images = UpsertImages(seen.images, image_tasks_from_thread(th), 1),
                !.upserted = seen.upserted \cup {th.tid}]
        ELSE seen

\* one iteration of "for th in objs" on the accumulated locals and tables
ProcessThread(acc, th, since_ts) ==
    IF th.is_top THEN acc
    ELSE LET seen == [acc EXCEPT !.any_candidate = TRUE,
                                 !.max_seen_ts = Max(acc.max_seen_ts, th.create_time)]
         IN  IF th.create_time > since_ts
             THEN [seen EXCEPT
                     !.all_old = FALSE,
                     !.threads = upsert_thread(seen.threads, CrawlRow(th)),
                     !.images = UpsertImages(seen.images, image_tasks_from_thread(th), 1),
                     !.upserted = seen.upserted \cup {th.tid}]
             ELSE seen

RECURSIVE ProcessObjs(_, _, _, _)
ProcessObjs(acc, objs, i, since_ts) ==
    IF i > Len(objs) THEN acc
    ELSE ProcessObjs(ProcessThread(acc, objs[i], since_ts), objs, i + 1, since_ts)

\* what ends the handling of a page: "continue", or the reason of the break
StopDecision(any_candidate, all_old, has_more) ==
    IF ~any_candidate THEN "continue"
    ELSE IF all_old THEN "history"
    ELSE IF ~has_more THEN "no_more"
    ELSE "continue"

LoopConditionNoCeiling(pn, max_pages) == TRUE

\* while pn <= max_pages
LoopCondition(pn, max_pages) == pn <= max_pages

IdleCrawl ==
    [pc |-> "idle", pn |-> 0, since_ts |-> 0, last_crawl_ts |-> NullInt,
     max_seen_ts |-> 0, max_pages |-> 0, listing |-> <<>>,
     upserted |-> {}, exit |-> "none", wrote |-> FALSE]

\* lines 40-56: read the watermark, fix the window, enter the loop
CrawlStart(listing, initial_hours, overlap_seconds, max_pages) ==
    /\ crawl.pc = "idle"
    /\ crawl_runs < MaxCrawlRuns
    /\ LET last == ReadLastCrawlTs(forum_state)
       IN  crawl' = [pc |-> IF LoopCondition(1, max_pages) THEN "loop" ELSE "finish",
                     pn |-> 1,
                     since_ts |-> WindowStart(last, NowTs, initial_hours, overlap_seconds),
                     last_crawl_ts |-> last,
                     max_seen_ts |-> InitMaxSeen(last),
                     max_pages |-> max_pages,
                     listing |-> listing,
                     upserted |-> {},
                     exit |-> IF LoopCondition(1, max_pages) THEN "none" ELSE "max_pages",
                     wrote |-> FALSE]
    /\ crawl_runs' = crawl_runs + 1
    /\ UNCHANGED <<forum_state, threads, images, relay_tasks, relay, relay_runs, call, jobs, runners, loop>>

\* lines 58-134: one pass of the loop with a page the client returned
CrawlPage(has_more) ==
    /\ crawl.pc = "loop"
    /\ has_more \/ IsLastPage(crawl.listing, crawl.pn)
    /\ LET objs == PageObjs(crawl.listing, crawl.pn)
           acc == ProcessObjs([any_candidate |-> FALSE, all_old |-> TRUE,
                               max_seen_ts |-> crawl.max_seen_ts,
                               threads |-> threads, images |-> images,
                               upserted |-> crawl.upserted],
                              objs, 1, crawl.since_ts)
           stop == IF objs = <<>> THEN "empty"
                   ELSE StopDecision(acc.any_candidate, acc.all_old, has_more)
       IN  /\ threads' = acc.threads
           /\ images' = acc.images
           /\ crawl' =
                IF stop = "continue"
                THEN [crawl EXCEPT
                        !.pn = crawl.pn + 1,
                        !.max_seen_ts = acc.max_seen_ts,
                        !.upserted = acc.upserted,
                        !.pc = IF LoopCondition(crawl.pn + 1, crawl.max_pages)
                               THEN "loop" ELSE "finish",
                        !.exit = IF LoopCondition(crawl.pn + 1, crawl.max_pages)
                                 THEN "none" ELSE "max_pages"]
                ELSE [crawl EXCEPT
                        !.max_seen_ts = acc.max_seen_ts,
                        !.upserted = acc.upserted,
                        !.pc = "finish",
                        !.exit = stop]
    /\ UNCHANGED <<forum_state, crawl_runs, relay_tasks, relay, relay_runs, call, jobs, runners, loop>>

\* lines 63-66: the fetch raises; the run ends there
CrawlFetchFail ==
    /\ crawl.pc = "loop"
    /\ crawl' = [crawl EXCEPT !.pc = "aborted", !.exit = "error"]
    /\ UNCHANGED <<forum_state, threads, images, crawl_runs, relay_tasks, relay,
                   relay_runs, call, jobs, runners, loop>>

\* lines 136-137: the watermark write that ends a run
CrawlFinish ==
    /\ crawl.pc = "finish"
    /\ IF crawl.max_seen_ts > 0
       THEN /\ forum_state' = set_forum_state(crawl.max_seen_ts, crawl_runs)
            /\ crawl' = [crawl EXCEPT !.pc = "done", !.wrote = TRUE]
       ELSE /\ forum_state' = forum_state
            /\ crawl' = [crawl EXCEPT !.pc = "done"]
    /\ UNCHANGED <<threads, images, crawl_runs, relay_tasks, relay, relay_runs, call, jobs, runners, loop>>

\* lines 139-147, or the exception leaving the function: the locals are gone
CrawlReturn ==
    /\ crawl.pc \in {"done", "aborted"}
    /\ crawl' = IdleCrawl
    /\ UNCHANGED <<forum_state, threads, images, crawl_runs, relay_tasks, relay,
                   relay_runs, call, jobs, runners, loop>>

-----------------------------------------------------------------------------
(* Initial stores and the crawl specification *)

EmptyThreads == [t \in Tids |-> NoRow]
EmptyImages == [k \in Tids \X Urls |-> NoRow]
NoCall == [op |-> "none"]
RunningLoop == [state |-> "running", time |-> 0]

\* Arguments a caller passes to a crawl run.  A run reads initial_hours
\* only when no watermark is stored and overlap_seconds only when one is;
\* the argument it does not read is left at one value.
InitialHoursChoices ==
    IF ReadLastCrawlTs(forum_state) = NullInt THEN {1, MaxTid} ELSE {1}
OverlapChoices ==
    IF ReadLastCrawlTs(forum_state) = NullInt THEN {SecondsPerHour}
    ELSE {0, SecondsPerHour}
MaxPagesChoices == 1..MaxPagesBound

InitCrawl ==
    /\ forum_state = NoRow
    /\ threads = EmptyThreads
    /\ images = EmptyImages
    /\ relay_tasks = <<>>
    /\ crawl = IdleCrawl
    /\ crawl_runs = 0
    /\ relay = [p \in RelayProcs |-> IdleRelay]
    /\ relay_runs = 0
    /\ call = NoCall
    /\ jobs = <<>>
    /\ runners = <<>>
    /\ loop = RunningLoop

NextCrawl ==
    \/ \E l \in Listings, ih \in InitialHoursChoices, ov \in OverlapChoices,
          mp \in MaxPagesChoices : CrawlStart(l, ih, ov, mp)
    \/ \E hm \in BOOLEAN : CrawlPage(hm)
    \/ CrawlFetchFail
    \/ CrawlFinish
    \/ CrawlReturn

SpecCrawl == InitCrawl /\ [][NextCrawl]_vars

-----------------------------------------------------------------------------
(* Claims on the crawl run *)

LastTs(state) == IF state = NoRow THEN 0 ELSE state.last_crawl_ts

\* the page the run handled last, and its non-pinned items
CurrentPage == PageObjs(crawl.listing, crawl.pn)
NonPinned(objs) == {i \in 1..Len(objs) : ~objs[i].is_top}
Pinned(objs) == {i \in 1..Len(objs) : objs[i].is_top}

\* a step of the loop that handled a fetched page
PageStep == crawl.pc = "loop" /\ crawl'.pc \in {"loop", "finish"} /\ crawl' # crawl

\* C1: over any sequence of crawl runs (completed, empty, aborted) the stored
\* watermark last_crawl_ts never decreases.
C1_WatermarkNeverDecreases ==
    [][LastTs(forum_state') >= LastTs(forum_state)]_vars

\* C1 witness: a second run has completed on a listing whose items are all
\* older than the stored watermark, and the watermark is still that value.
C1_Witness ==
    /\ crawl.pc = "done"
    /\ crawl_runs = 2
    /\ crawl.wrote
    /\ crawl.last_crawl_ts # NullInt
    /\ NonPinned(crawl.listing) # {}
    /\ \A i \in NonPinned(crawl.listing) :
           crawl.listing[i].create_time < crawl.last_crawl_ts
    /\ LastTs(forum_state) = crawl.last_crawl_ts

\* C6 as stated: a page with a non-pinned item newer than the window start
\* never stops the crawl as history boundary, and a page whose non-pinned
\* items are all at or before the window start stops the crawl.
C6_AsStated ==
    [][PageStep /\ CurrentPage # <<>> =>
        /\ (\E i \in NonPinned(CurrentPage) :
                CurrentPage[i].create_time > crawl.since_ts)
              => crawl'.exit # "history"
        /\ (\A i \in NonPinned(CurrentPage) :
                CurrentPage[i].create_time <= crawl.since_ts)
              => crawl'.pc = "finish"]_vars

\* C6 amended: a page with a non-pinned item newer than the window start never
\* stops the crawl as history boundary; a page that holds at least one
\* non-pinned item, all of them at or before the window start, stops the crawl
\* as history boundary whatever its pinned items; a page that holds only
\* pinned items never stops the crawl as history boundary.
C6_PinnedNeverDecideStop ==
    [][PageStep /\ CurrentPage # <<>> =>
        /\ (\E i \in NonPinned(CurrentPage) :
                CurrentPage[i].create_time > crawl.since_ts)
              => crawl'.exit # "history"
        /\ (/\ NonPinned(CurrentPage) # {}
            /\ \A i \in NonPinned(CurrentPage) :
                   CurrentPage[i].create_time <= crawl.since_ts)
              => crawl'.pc = "finish" /\ crawl'.exit = "history"
        /\ NonPinned(CurrentPage) = {} => crawl'.exit # "history"]_vars

\* C6 witness: the crawl stopped as history boundary on a page that holds a
\* pinned item newer than the window start.
C6_Witness ==
    /\ crawl.pc = "finish"
    /\ crawl.exit = "history"
    /\ \E i \in Pinned(CurrentPage) : CurrentPage[i].create_time > crawl.since_ts

\* C7 as stated: when a run has persisted watermark W, every non-pinned item
\* of the listing created after the window start and at or before W is stored.
C7_AsStated ==
    (crawl.pc = "done" /\ crawl.wrote) =>
        \A i \in NonPinned(crawl.listing) :
            (/\ crawl.listing[i].create_time > crawl.since_ts
             /\ crawl.listing[i].create_time <= LastTs(forum_state))
                => threads[crawl.listing[i].tid] # NoRow

\* C8: a run aborted by a failed page fetch leaves the watermark as the run
\* read it at its start, and every thread and image task it wrote is stored.
C8_AbortKeepsCommittedPages ==
    crawl.pc = "aborted" =>
        /\ ReadLastCrawlTs(forum_state) = crawl.last_crawl_ts
        /\ \A t \in crawl.upserted :
              /\ threads[t] # NoRow
              /\ \A k \in 1..Len(ImgUrlsOf(t)) : images[<<t, ImgUrlsOf(t)[k]>>] # NoRow

\* C8 witness: the fetch of page 2 failed after page 1 wrote an item newer
\* than the watermark the run started from.
C8_Witness ==
    /\ crawl.pc = "aborted"
    /\ crawl.pn = 2
    /\ \E t \in crawl.upserted : ImgUrlsOf(t) # <<>>
    /\ crawl.max_seen_ts > InitMaxSeen(crawl.last_crawl_ts)

-----------------------------------------------------------------------------
(* Direct calls of the Repo thread operations (cli.py set-category, the API
   category route, sync_collections, and upsert_thread with any row) *)

\* the thread the direct calls address
RepoTids == {1}
Categories == {"A", "B"}
CategoryArgs == {Null, ""} \cup Categories
TagsArgs == {Null, "", "[t]"}

\* rows a caller can hand to upsert_thread
RepoRows ==
    {[tid |-> t, fname |-> CrawlForum, title |-> PlainTitle,
      create_time |-> CreateTimeOf(t), is_top |-> 0,
      process_status |-> ps, category |-> c, tags_json |-> g,
      thread_role |-> IF yw = NullInt THEN "normal" ELSE "collection",
      collection_year |-> IF yw = NullInt THEN NullInt ELSE 1970,
      collection_week |-> yw] :
        t \in RepoTids, ps \in {Null, "new", "fetched", "processed"}, c \in CategoryArgs,
        g \in TagsArgs, yw \in {NullInt, 1}}

\* the stored columns a call record keeps of the row it met
Before(t) ==
    IF threads[t] = NoRow THEN NoRow
    ELSE [category |-> threads[t].category, tags_json |-> threads[t].tags_json,
          thread_role |-> threads[t].thread_role,
          process_status |-> threads[t].process_status]

RepoUpsertThread(row) ==
    /\ threads' = upsert_thread(threads, row)
    /\ call' = [op |-> "upsert_thread", tid |-> row.tid,
                category |-> row.category, tags_json |-> row.tags_json,
                thread_role |-> row.thread_role,
                process_status |-> row.process_status,
                before |-> Before(row.tid)]
    /\ UNCHANGED <<forum_state, images, relay_tasks, crawl, crawl_runs, relay,
                   relay_runs, jobs, runners, loop>>

RepoSetThreadCategory(tid, category, tags_json) ==
    /\ threads' = set_thread_category(threads, tid, category, tags_json)
    /\ call' = [op |-> "set_thread_category", tid |-> tid,
                category |-> category, tags_json |-> tags_json,
                thread_role |-> Null, process_status |-> Null,
                before |-> Before(tid)]
    /\ UNCHANGED <<forum_state, images, relay_tasks, crawl, crawl_runs, relay,
                   relay_runs, jobs, runners, loop>>

RepoMarkThreadAsCollection(tid, category) ==
    /\ threads' = mark_thread_as_collection(threads, tid, category, 1970, 1)
    /\ call' = [op |-> "mark_thread_as_collection", tid |-> tid,
                category |-> category, tags_json |-> Null,
                thread_role |-> "collection", process_status |-> Null,
                before |-> Before(tid)]
    /\ UNCHANGED <<forum_state, images, relay_tasks, crawl, crawl_runs, relay,
                   relay_runs, jobs, runners, loop>>

InitRepo == InitCrawl

NextRepo ==
    \/ \E row \in RepoRows : RepoUpsertThread(row)
    \/ \E t \in RepoTids, c \in Categories \cup {""}, g \in TagsArgs :
          RepoSetThreadCategory(t, c, g)
    \/ \E t \in RepoTids, c \in Categories : RepoMarkThreadAsCollection(t, c)

SpecRepo == InitRepo /\ [][NextRepo]_vars

\* C4: upsert_thread on a stored thread id keeps the stored category when the
\* incoming category is null or empty and takes the incoming one otherwise;
\* likewise for tags.
C4_UpsertKeepsLabels ==
    (call.op = "upsert_thread" /\ call.before # NoRow) =>
        /\ threads[call.tid].category =
              IF call.category \in {Null, ""} THEN call.before.category
              ELSE call.category
        /\ threads[call.tid].tags_json =
              IF call.tags_json \in {Null, ""} THEN call.before.tags_json
              ELSE call.tags_json

\* C4 witness: a thread stored with category "A" and tags was upserted again
\* with a null category and empty tags.
C4_Witness ==
    /\ call.op = "upsert_thread"
    /\ call.before # NoRow
    /\ call.before.category = "A"
    /\ call.before.tags_json = "[t]"
    /\ call.category = Null
    /\ call.tags_json = ""

\* C23: once the stored role of a thread is collection, no upsert, labeling
\* or backfill call sets it back to normal.
C23_RoleNeverReverts ==
    [][\A t \in Tids :
          (threads[t] # NoRow /\ threads[t].thread_role = "collection")
              => (threads'[t] # NoRow /\ threads'[t].thread_role = "collection")]_vars

\* C23 witness: a thread stored as collection has been upserted with an
\* incoming row of role normal, and is still a collection.
C23_Witness ==
    /\ call.op = "upsert_thread"
    /\ call.before # NoRow
    /\ call.before.thread_role = "collection"
    /\ call.thread_role = "normal"
    /\ threads[call.tid].thread_role = "collection"

\* C24 as stated: when the row a crawl builds for a sighted thread is upserted
\* on a thread stored with processing status fetched or processed, the stored
\* processing status is left unchanged.
C24_AsStated ==
    (/\ call.op = "upsert_thread"
     /\ call.before # NoRow
     /\ call.before.process_status \in {"fetched", "processed"}
     /\ call.process_status = thread_to_row(Th(call.tid, FALSE)).process_status)
        => threads[call.tid].process_status = call.before.process_status

-----------------------------------------------------------------------------
(* db/repo.py: relay tasks *)

SecondsPerDay == 86400

\* utc offset of settings.timezone (Asia/Shanghai)
TzOffsetSeconds == 28800

\* _iso_year_week for a time of ISO year 1970 (ts below 1971-01-04 local):
\* 1970-01-01 is the Thursday of week 1
_iso_year_week(ts) ==
    LET days == (ts + TzOffsetSeconds) \div SecondsPerDay
    IN  <<1970, ((days + 3) \div 7) + 1>>

TaskIds(tasks) == 1..Len(tasks)

reset_stuck_relay_unfinished(tasks) ==
    [i \in TaskIds(tasks) |->
        IF tasks[i].status \in {"POSTING", "ERROR"}
        THEN [tasks[i] EXCEPT !.status = "PENDING"]
        ELSE tasks[i]]

\* UPDATE relay_tasks SET status='PENDING' WHERE status='POSTING'
reset_stuck_relay_posting(tasks) ==
    [i \in TaskIds(tasks) |->
        IF tasks[i].status = "POSTING" THEN [tasks[i] EXCEPT !.status = "PENDING"]
        ELSE tasks[i]]

\* the uniqueness of relay_tasks rows: one row per (source_tid, target_tid)
RelayTaskConflict(tasks, source_tid, target_tid) ==
    \E i \in TaskIds(tasks) :
        tasks[i].source_tid = source_tid /\ tasks[i].target_tid = target_tid

NewRelayTask(source_tid, target_tid, target_forum, category, y, w) ==
    [source_tid |-> source_tid, target_tid |-> target_tid,
     target_forum |-> target_forum, category |-> category,
     source_year |-> y, source_week |-> w,
     status |-> "PENDING", attempts |-> 0, last_error |-> Null]

insert_relay_task_always(tasks, source_tid, target_tid, target_forum, category, y, w) ==
    Append(tasks, NewRelayTask(source_tid, target_tid, target_forum, category, y, w))

\* INSERT OR IGNORE INTO relay_tasks ...
insert_relay_task(tasks, source_tid, target_tid, target_forum, category, y, w) ==
    IF RelayTaskConflict(tasks, source_tid, target_tid) THEN tasks
    ELSE Append(tasks, NewRelayTask(source_tid, target_tid, target_forum, category, y, w))

RECURSIVE OrderBy(_, _)
\* the members of S as a sequence in ascending key[_], ties by the member
OrderBy(S, key) ==
    IF S = {} THEN <<>>
    ELSE LET x == CHOOSE a \in S :
                    \A b \in S : key[a] < key[b] \/ (key[a] = key[b] /\ a <= b)
         IN  <<x>> \o OrderBy(S \ {x}, key)

Truthy(str) == str # Null /\ str # ""

query_threads_any_forum(tbl, forum, lookback_since_ts, category) ==
    LET hit == {t \in Tids :
                  /\ tbl[t] # NoRow
                  /\ tbl[t].create_time >= lookback_since_ts
                  /\ tbl[t].thread_role # "collection"
                  /\ tbl[t].category # Null
                  /\ tbl[t].category # ""
                  /\ Truthy(category) => tbl[t].category = category}
        ct == [t \in hit |-> tbl[t].create_time]
    IN  OrderBy(hit, ct)

\* the tids query_threads_for_relay_candidates returns, in create_time order
query_threads_for_relay_candidates(tbl, forum, lookback_since_ts, category) ==
    LET hit == {t \in Tids :
                  /\ tbl[t] # NoRow
                  /\ tbl[t].fname = forum
                  /\ tbl[t].create_time >= lookback_since_ts
                  /\ tbl[t].thread_role # "collection"
                  /\ tbl[t].category # Null
                  /\ tbl[t].category # ""
                  /\ Truthy(category) => tbl[t].category = category}
        ct == [t \in hit |-> tbl[t].create_time]
    IN  OrderBy(hit, ct)

\* the tid find_collection_thread returns (the newest match), 0 for none
find_collection_thread(tbl, forum, category, year, week) ==
    LET hit == {t \in Tids :
                  /\ tbl[t] # NoRow
                  /\ tbl[t].fname = forum
                  /\ tbl[t].thread_role = "collection"
                  /\ tbl[t].category = category
                  /\ tbl[t].collection_year = year
                  /\ tbl[t].collection_week = week}
    IN  IF hit = {} THEN 0
        ELSE CHOOSE t \in hit :
                \A u \in hit : tbl[u].create_time < tbl[t].create_time
                                \/ (tbl[u].create_time = tbl[t].create_time /\ u >= t)

ClaimSelectFinished(tasks, tbl, limit, include_error, category) ==
    LET statuses == IF include_error THEN {"PENDING", "ERROR", "DONE", "SKIPPED"}
                    ELSE {"PENDING"}
        hit == {i \in TaskIds(tasks) :
                  /\ tasks[i].status \in statuses
                  /\ Truthy(category) => tasks[i].category = category
                  /\ tbl[tasks[i].source_tid] # NoRow}
        ct == [i \in hit |-> tbl[tasks[i].source_tid].create_time]
        ordered == OrderBy(hit, ct)
    IN  IF limit < 0 THEN ordered ELSE SubSeq(ordered, 1, Min(limit, Len(ordered)))

\* the relay_tasks ids the SELECT of claim_relay_tasks returns, in order
ClaimSelect(tasks, tbl, limit, include_error, category) ==
    LET statuses == IF include_error THEN {"PENDING", "ERROR"} ELSE {"PENDING"}
        hit == {i \in TaskIds(tasks) :
                  /\ tasks[i].status \in statuses
                  /\ Truthy(category) => tasks[i].category = category
                  /\ tbl[tasks[i].source_tid] # NoRow}
        ct == [i \in hit |-> tbl[tasks[i].source_tid].create_time]
        ordered == OrderBy(hit, ct)
    IN  IF limit < 0 THEN ordered ELSE SubSeq(ordered, 1, Min(limit, Len(ordered)))

\* UPDATE relay_tasks SET status='POSTING', attempts=attempts+1 WHERE id IN (ids)
ClaimUpdate(tasks, ids) ==
    [i \in TaskIds(tasks) |->
        IF i \in ids
        THEN [tasks[i] EXCEPT !.status = "POSTING", !.attempts = tasks[i].attempts + 1]
        ELSE tasks[i]]

\* UPDATE relay_tasks SET status='PENDING' WHERE id IN (task_ids)
release_relay_tasks(tasks, ids) ==
    [i \in TaskIds(tasks) |->
        IF i \in ids THEN [tasks[i] EXCEPT !.status = "PENDING"] ELSE tasks[i]]

mark_relay_done(tasks, id) ==
    [tasks EXCEPT ![id].status = "DONE", ![id].last_error = Null]

mark_relay_skipped(tasks, id, reason) ==
    [tasks EXCEPT ![id].status = "SKIPPED", ![id].last_error = reason]

mark_relay_error(tasks, id, error) ==
    [tasks EXCEPT ![id].status = "ERROR", ![id].last_error = error]

-----------------------------------------------------------------------------
(* jobs/relay_labeled_threads.py *)

\* the keyword-only parameters of build_reply_content, none with a default
BuildReplyContentParams ==
    {"source_tid", "title", "author_name", "author_id", "create_time", "text",
     "image_urls", "mode", "max_text_chars", "max_images", "tz"}

\* the keywords the dry-run loop passes to build_reply_content
DryRunCallKwargs ==
    {"source_tid", "title", "author_name", "author_id", "create_time", "text",
     "mode", "max_text_chars", "max_images", "tz"}

\* the keywords the posting loop passes to build_reply_content
DrainCallKwargs ==
    {"source_tid", "title", "author_name", "author_id", "create_time", "text",
     "mode", "max_text_chars", "max_images", "tz"}

\* Python raises TypeError for a call that misses a required keyword
CallRaisesTypeError(params, kwargs) == params \ kwargs # {} \/ kwargs \ params # {}

\* the content of a call that binds: the header is never empty
ReplyContent == "header"

PostOutcomes == {"ok", "not_ok", "timeout", "exception"}

RowIds(rows) == {rows[k].id : k \in 1..Len(rows)}

EnqueueCandidateOrError(acc, tbl, forum, source_tid) ==
    LET cat == tbl[source_tid].category
        yw == _iso_year_week(tbl[source_tid].create_time)
        target == find_collection_thread(tbl, forum, cat, yw[1], yw[2])
        failed == [NewRelayTask(source_tid, 0, forum, cat, yw[1], yw[2])
                      EXCEPT !.status = "ERROR", !.last_error = "no target"]
    IN  IF target = 0
        THEN [acc EXCEPT !.tasks = Append(acc.tasks, failed),
                         !.missing_target = acc.missing_target + 1]
        ELSE LET after == insert_relay_task(acc.tasks, source_tid, target,
                                            tbl[target].fname, cat, yw[1], yw[2])
             IN  [acc EXCEPT !.tasks = after,
                             !.enqueued = IF Len(after) > Len(acc.tasks)
                                          THEN acc.enqueued + 1 ELSE acc.enqueued]

\* one iteration of "for th in candidates" on the table and the counters
EnqueueCandidate(acc, tbl, forum, source_tid) ==
    LET cat == tbl[source_tid].category
        yw == _iso_year_week(tbl[source_tid].create_time)
        target == find_collection_thread(tbl, forum, cat, yw[1], yw[2])
    IN  IF target = 0
        THEN [acc EXCEPT !.missing_target = acc.missing_target + 1]
        ELSE LET after == insert_relay_task(acc.tasks, source_tid, target,
                                            tbl[target].fname, cat, yw[1], yw[2])
             IN  [acc EXCEPT !.tasks = after,
                             !.enqueued = IF Len(after) > Len(acc.tasks)
                                          THEN acc.enqueued + 1 ELSE acc.enqueued]

RECURSIVE EnqueueAll(_, _, _, _, _)
EnqueueAll(acc, tbl, forum, candidates, k) ==
    IF k > Len(candidates) THEN acc
    ELSE EnqueueAll(EnqueueCandidate(acc, tbl, forum, candidates[k]),
                    tbl, forum, candidates, k + 1)

\* int(time.time()) of a relay run: the ninth day of 1970
RelayNowTs == 8 * SecondsPerDay

RelayUnchanged == UNCHANGED <<forum_state, threads, images, crawl, crawl_runs, call, jobs, runners, loop>>

\* lines 102-123: the checks before the store is opened
RelayStart(r, bduss, forum, category, include_error, dry_run, mode, max_posts, lookback_days) ==
    /\ relay[r].pc = "idle"
    /\ relay_runs < MaxRelayRuns
    /\ relay_runs' = relay_runs + 1
    /\ LET run == [IdleRelay EXCEPT
                     !.forum = forum, !.category = category,
                     !.include_error = include_error, !.dry_run = dry_run,
                     !.mode = mode, !.max_posts = max_posts,
                     !.lookback_days = lookback_days]
       IN  relay' = [relay EXCEPT ![r] =
              IF (~dry_run /\ bduss = "") \/ mode \notin {"link", "full"}
              THEN [run EXCEPT !.pc = "failed", !.error = "SystemExit"]
              ELSE [run EXCEPT !.pc = "reset"]]
    /\ UNCHANGED relay_tasks
    /\ RelayUnchanged

\* lines 125-127
RelayReset(r) ==
    /\ relay[r].pc = "reset"
    /\ relay_tasks' = reset_stuck_relay_posting(relay_tasks)
    /\ relay' = [relay EXCEPT
                   ![r].pc = "enqueue",
                   ![r].reset_ids = {i \in TaskIds(relay_tasks) :
                                        relay_tasks[i].status = "POSTING"}]
    /\ UNCHANGED relay_runs
    /\ RelayUnchanged

\* lines 129-166: step 1, enqueue relay tasks for labeled threads
RelayEnqueue(r) ==
    /\ relay[r].pc = "enqueue"
    /\ LET since == RelayNowTs - relay[r].lookback_days * SecondsPerDay
           candidates == query_threads_for_relay_candidates(
                             threads, relay[r].forum, since, relay[r].category)
           acc == EnqueueAll([tasks |-> relay_tasks, enqueued |-> 0,
                              missing_target |-> 0],
                             threads, relay[r].forum, candidates, 1)
       IN  /\ relay_tasks' = acc.tasks
           /\ relay' = [relay EXCEPT ![r].pc = "claim",
                                     ![r].enqueued = acc.enqueued,
                                     ![r].missing_target = acc.missing_target]
    /\ UNCHANGED relay_runs
    /\ RelayUnchanged

\* repo.py 337-349: the SELECT of claim_relay_tasks, outside any transaction
RelayClaimSelect(r) ==
    /\ relay[r].pc = "claim"
    /\ LET ids == ClaimSelect(relay_tasks, threads, relay[r].max_posts,
                              relay[r].include_error, relay[r].category)
           rows == [k \in 1..Len(ids) |->
                      [id |-> ids[k],
                       status |-> relay_tasks[ids[k]].status,
                       attempts |-> relay_tasks[ids[k]].attempts,
                       last_error |-> relay_tasks[ids[k]].last_error]]
           inclaim == {q \in RelayProcs \ {r} : relay[q].pc = "claim_update"}
       IN  relay' = [q \in RelayProcs |->
                       IF q = r
                       THEN [relay[r] EXCEPT !.pc = "claim_update", !.rows = rows,
                                             !.peers = inclaim]
                       ELSE IF q \in inclaim
                       THEN [relay[q] EXCEPT !.peers = relay[q].peers \cup {r}]
                       ELSE relay[q]]
    /\ UNCHANGED <<relay_tasks, relay_runs>>
    /\ RelayUnchanged

\* repo.py 351-358 and lines 179-191: the UPDATE of the claim, committed
RelayClaimUpdate(r) ==
    /\ relay[r].pc = "claim_update"
    /\ relay_tasks' = ClaimUpdate(relay_tasks, RowIds(relay[r].rows))
    /\ relay' = [relay EXCEPT
                   ![r].idx = 1,
                   ![r].pc = IF relay[r].rows = <<>> THEN "done"
                             ELSE IF relay[r].dry_run THEN "dry" ELSE "drain"]
    /\ UNCHANGED relay_runs
    /\ RelayUnchanged

\* lines 193-214: the dry run prints every content, then releases the tasks
RelayDryRun(r) ==
    /\ relay[r].pc = "dry"
    /\ IF CallRaisesTypeError(BuildReplyContentParams, DryRunCallKwargs)
       THEN /\ relay' = [relay EXCEPT ![r].pc = "failed", ![r].error = "TypeError"]
            /\ UNCHANGED relay_tasks
       ELSE /\ relay_tasks' = release_relay_tasks(relay_tasks, RowIds(relay[r].rows))
            /\ relay' = [relay EXCEPT ![r].pc = "done",
                                      ![r].idx = Len(relay[r].rows) + 1]
    /\ UNCHANGED relay_runs
    /\ RelayUnchanged

\* lines 217-259: one iteration of the posting loop; outcome is what
\* add_post_safe does when it is called
RelayDrainTask(r, outcome) ==
    /\ relay[r].pc = "drain"
    /\ LET id == relay[r].rows[relay[r].idx].id
           next == [relay[r] EXCEPT
                      !.idx = relay[r].idx + 1,
                      !.pc = IF relay[r].idx < Len(relay[r].rows) THEN "drain"
                             ELSE "done"]
       IN  IF CallRaisesTypeError(BuildReplyContentParams, DrainCallKwargs)
           THEN /\ relay' = [relay EXCEPT ![r].pc = "failed",
                                          ![r].error = "TypeError"]
                /\ UNCHANGED relay_tasks
           ELSE /\ relay' = [relay EXCEPT ![r] = next]
                /\ relay_tasks' =
                     IF ReplyContent = ""
                     THEN mark_relay_skipped(relay_tasks, id,
                                             "Empty content after formatting")
                     ELSE IF outcome = "ok" THEN mark_relay_done(relay_tasks, id)
                     ELSE IF outcome = "not_ok"
                     THEN mark_relay_error(relay_tasks, id, "add_post returned not-ok")
                     ELSE IF outcome = "timeout"
                     THEN mark_relay_error(relay_tasks, id,
                                           "TimeoutError (unknown if posted)")
                     ELSE mark_relay_error(relay_tasks, id, "exception")
    /\ UNCHANGED relay_runs
    /\ RelayUnchanged

\* the function returns, or the exception leaves it: the locals are gone
RelayReturn(r) ==
    /\ relay[r].pc \in {"done", "failed"}
    /\ relay' = [relay EXCEPT ![r] = IdleRelay]
    /\ UNCHANGED <<relay_tasks, relay_runs>>
    /\ RelayUnchanged

-----------------------------------------------------------------------------
(* Initial stores and the relay specifications *)

\* The stores a relay run can find.  Thread 1 is the collection thread of
\* category A, 1970 week 1, as the crawl stored it, or is not stored; thread
\* 2 is a thread of that week labeled A; thread 3 is one week older or not,
\* and unlabeled or labeled A or B; no other thread is stored.
LabeledRow(t, category, weeks) ==
    [CrawlRow(Th(t, FALSE)) EXCEPT
        !.category = category,
        !.create_time = CreateTimeOf(t) + weeks * 7 * SecondsPerDay]

RelayWorlds ==
    {[t \in Tids |->
          IF t = 1 THEN c1
          ELSE IF t = 2 THEN LabeledRow(2, "A", 0)
          ELSE IF t = 3 THEN c3
          ELSE NoRow] :
        c1 \in {NoRow, CrawlRow(Th(1, FALSE))},
        c3 \in {LabeledRow(3, c, w) : c \in {Null, "A", "B"}, w \in {0, 1}}}

RelayStatuses == {"PENDING", "POSTING", "DONE", "ERROR", "SKIPPED"}

\* a task an earlier run inserted and left in the given status
StoredRelayTask(tbl, source_tid, target_tid, status) ==
    LET yw == _iso_year_week(tbl[source_tid].create_time)
        new == NewRelayTask(source_tid, target_tid, tbl[target_tid].fname,
                            tbl[source_tid].category, yw[1], yw[2])
    IN  [new EXCEPT
            !.status = status,
            !.attempts = IF status = "PENDING" THEN 0 ELSE 1,
            !.last_error = IF status = "ERROR" THEN "exception"
                           ELSE IF status = "SKIPPED"
                           THEN "Empty content after formatting" ELSE Null]

RECURSIVE StoredRelayTables(_, _)
\* the relay_tasks tables earlier runs can have left for threads 2..t
StoredRelayTables(tbl, t) ==
    IF t < 2 THEN {<<>>}
    ELSE LET prev == StoredRelayTables(tbl, t - 1)
             target == IF tbl[t] = NoRow \/ ~Truthy(tbl[t].category) THEN 0
                       ELSE LET yw == _iso_year_week(tbl[t].create_time)
                            IN  find_collection_thread(tbl, tbl[t].fname,
                                                       tbl[t].category, yw[1], yw[2])
         IN  IF target = 0 THEN prev
             ELSE prev \cup
                  {Append(tasks, StoredRelayTask(tbl, t, target, st)) :
                      tasks \in prev, st \in RelayStatuses}

InitRelay ==
    /\ forum_state = NoRow
    /\ threads \in RelayWorlds
    /\ images = EmptyImages
    /\ relay_tasks \in StoredRelayTables(threads, MaxTid)
    /\ crawl = IdleCrawl
    /\ crawl_runs = 0
    /\ relay = [p \in RelayProcs |-> IdleRelay]
    /\ relay_runs = 0
    /\ call = NoCall
    /\ jobs = <<>>
    /\ runners = <<>>
    /\ loop = RunningLoop

\* The arguments of a relay run: the runs in mode link with every choice of
\* the others, and the runs in another mode or without credentials, which
\* read the others at most as a run in mode link does.
RelayArgs ==
    {[bduss |-> IF d THEN "" ELSE "b", forum |-> CrawlForum, category |-> c,
      include_error |-> e, dry_run |-> d, mode |-> "link", max_posts |-> n,
      lookback_days |-> l] :
        c \in {Null, "A"}, e \in BOOLEAN, d \in BOOLEAN, n \in 1..MaxPosts,
        l \in {1, 30}}
    \cup
    {[bduss |-> b, forum |-> CrawlForum, category |-> Null,
      include_error |-> FALSE, dry_run |-> FALSE, mode |-> m, max_posts |-> 1,
      lookback_days |-> 30] :
        b \in {"", "b"}, m \in {"full", "text"}}

RelayRun(r, a) ==
    RelayStart(r, a.bduss, a.forum, a.category, a.include_error, a.dry_run, a.mode, a.max_posts, a.lookback_days)

\* one process: the runs follow one another
NextRelay ==
    \/ \E a \in RelayArgs : RelayRun(1, a)
    \/ RelayReset(1)
    \/ RelayEnqueue(1)
    \/ RelayClaimSelect(1)
    \/ RelayClaimUpdate(1)
    \/ RelayDryRun(1)
    \/ \E o \in PostOutcomes : RelayDrainTask(1, o)
    \/ RelayReturn(1)

SpecRelay == InitRelay /\ [][NextRelay]_vars

\* two processes on one store, each with its own connection
RelayArgsConc ==
    {a \in RelayArgs : /\ a.category = Null
                       /\ a.lookback_days = 30
                       /\ a.mode = "link"
                       /\ ~a.dry_run}

NextRelayConc ==
    \E r \in RelayProcs :
        \/ \E a \in RelayArgsConc : RelayRun(r, a)
        \/ RelayReset(r)
        \/ RelayEnqueue(r)
        \/ RelayClaimSelect(r)
        \/ RelayClaimUpdate(r)
        \/ \E o \in PostOutcomes : RelayDrainTask(r, o)
        \/ RelayReturn(r)

SpecRelayConc == InitRelay /\ [][NextRelayConc]_vars

\* stores that hold threads of two forums: the collection thread 1 and the
\* labeled threads 2 and 3, each in the forum of the runs or in another one
OtherForum == "f2"

InForum(row, forum) == [row EXCEPT !.fname = forum]

ForumWorlds ==
    {[t \in Tids |->
          IF t = 1 THEN InForum(CrawlRow(Th(1, FALSE)), g1)
          ELSE IF t = 2 THEN InForum(LabeledRow(2, "A", 0), g2)
          ELSE IF t = 3 THEN InForum(LabeledRow(3, "A", w), g3)
          ELSE NoRow] :
        g1 \in {CrawlForum, OtherForum}, g2 \in {CrawlForum, OtherForum},
        g3 \in {CrawlForum, OtherForum}, w \in {0, 1}}

InitRelayForums ==
    /\ forum_state = NoRow
    /\ threads \in ForumWorlds
    /\ images = EmptyImages
    /\ relay_tasks \in StoredRelayTables(threads, MaxTid)
    /\ crawl = IdleCrawl
    /\ crawl_runs = 0
    /\ relay = [p \in RelayProcs |-> IdleRelay]
    /\ relay_runs = 0
    /\ call = NoCall
    /\ jobs = <<>>
    /\ runners = <<>>
    /\ loop = RunningLoop

SpecRelayForums == InitRelayForums /\ [][NextRelay]_vars

\* Relay runs on a store that crawl runs and the backfill write in between.
\* Thread 1 is the aggregation thread of category A, 1970 week 1: not yet
\* stored, or stored with role normal before titles were detected; thread 2
\* is labeled A in that week; thread 3, when a crawl sights it, is a newer
\* aggregation thread with the title of thread 1.
LateWorlds ==
    {[t \in Tids |->
          IF t = 1 THEN c1
          ELSE IF t = 2 THEN LabeledRow(2, "A", 0)
          ELSE NoRow] :
        c1 \in {NoRow, thread_to_row(Th(1, FALSE))}}

AggregationTh(t) == [Th(t, FALSE) EXCEPT !.title = TitleOf(1)]

AggregationTids == {1, 3}

\* crawl_threads.py 89-99: the rows the crawl makes of these threads
AggregationRows == {CrawlRow(AggregationTh(t)) : t \in AggregationTids}

\* crawl_threads.py 101 on a sighting of an aggregation thread
CrawlSightsAggregation(row) == RepoUpsertThread(row)

RECURSIVE SyncRows(_, _, _)
\* sync_collections.py 35-46: the loop over the rows of the forum
SyncRows(tbl, forum, t) ==
    IF t = 0 THEN tbl
    ELSE LET row == tbl[t]
             d == IF row = NoRow THEN <<FALSE, Null, NullInt, NullInt>>
                  ELSE detect_collection_from_title(row.title, CollectionRules)
             hit == /\ row # NoRow
                    /\ row.fname = forum
                    /\ d[1] /\ d[2] # Null /\ d[2] # ""
                    /\ d[3] # NullInt /\ d[3] # 0
                    /\ d[4] # NullInt /\ d[4] # 0
         IN  SyncRows(IF hit THEN mark_thread_as_collection(tbl, t, d[2], d[3], d[4])
                      ELSE tbl, forum, t - 1)

\* sync_collections.py 12-51 without dry_run
SyncCollections(forum) ==
    /\ threads' = SyncRows(threads, forum, MaxTid)
    /\ call' = [op |-> "sync_collections", forum |-> forum]
    /\ UNCHANGED <<forum_state, images, relay_tasks, crawl, crawl_runs, relay,
                   relay_runs, jobs, runners, loop>>

InitRelayLate ==
    /\ forum_state = NoRow
    /\ threads \in LateWorlds
    /\ images = EmptyImages
    /\ relay_tasks = <<>>
    /\ crawl = IdleCrawl
    /\ crawl_runs = 0
    /\ relay = [p \in RelayProcs |-> IdleRelay]
    /\ relay_runs = 0
    /\ call = NoCall
    /\ jobs = <<>>
    /\ runners = <<>>
    /\ loop = RunningLoop

\* the runs of the two callers come one after another
RunsInTurn(r) ==
    \A q \in RelayProcs \ {r} : relay[q].pc \in {"idle", "done", "failed"}

\* the runs that post, with every category filter and lookback window
RelayArgsLate ==
    {a \in RelayArgs : /\ a.mode = "link"
                       /\ ~a.dry_run
                       /\ ~a.include_error
                       /\ a.max_posts = 1}

NextRelayLate ==
    \/ \E r \in RelayProcs :
          \/ \E a \in RelayArgsLate : RunsInTurn(r) /\ RelayRun(r, a)
          \/ RelayReset(r)
          \/ RelayEnqueue(r)
          \/ RelayClaimSelect(r)
          \/ RelayClaimUpdate(r)
          \/ \E o \in PostOutcomes : RelayDrainTask(r, o)
          \/ RelayReturn(r)
    \/ \E row \in AggregationRows : CrawlSightsAggregation(row)
    \/ SyncCollections(CrawlForum)

SpecRelayLate == InitRelayLate /\ [][NextRelayLate]_vars

-----------------------------------------------------------------------------
(* Claims on the relay run *)

SeqRange(seq) == {seq[k] : k \in 1..Len(seq)}

TaskKey(task) == <<task.source_tid, task.target_tid>>

\* the (source, target) pairs the enqueue phase of run r finds in the store
CandidatePairs(r) ==
    LET since == RelayNowTs - relay[r].lookback_days * SecondsPerDay
        candidates == query_threads_for_relay_candidates(
                          threads, relay[r].forum, since, relay[r].category)
        targetOf == [s \in SeqRange(candidates) |->
                       LET yw == _iso_year_week(threads[s].create_time)
                       IN  find_collection_thread(threads, relay[r].forum,
                                                  threads[s].category, yw[1], yw[2])]
    IN  {<<s, targetOf[s]>> : s \in {c \in SeqRange(candidates) : targetOf[c] # 0}}

EnqueueStep(r) == relay[r].pc = "enqueue" /\ relay'[r].pc = "claim"

\* C3: the enqueue phase leaves every existing relay task as it is and
\* leaves exactly one task for every (source, target) pair it finds; when
\* every pair has its task already, as in a second run on the same store,
\* it inserts no row and counts none.
C3_EnqueueOncePerPair ==
    [][\A r \in RelayProcs : EnqueueStep(r) =>
          /\ Len(relay_tasks') >= Len(relay_tasks)
          /\ \A i \in TaskIds(relay_tasks) : relay_tasks'[i] = relay_tasks[i]
          /\ \A pr \in CandidatePairs(r) :
                Cardinality({i \in TaskIds(relay_tasks') :
                                TaskKey(relay_tasks'[i]) = pr}) = 1
          /\ (\A pr \in CandidatePairs(r) :
                 \E i \in TaskIds(relay_tasks) : TaskKey(relay_tasks[i]) = pr)
             => relay_tasks' = relay_tasks /\ relay'[r].enqueued = 0]_vars

\* C3 happens: the second run has enqueued nothing and the store holds the
\* task of thread 3 before the task of thread 2, an order only the enqueue
\* phase of the first run can have made; that task was claimed since.
C3_Witness ==
    /\ relay_runs = 2
    /\ relay[1].pc = "claim"
    /\ relay[1].enqueued = 0
    /\ CandidatePairs(1) # {}
    /\ Len(relay_tasks) = 2
    /\ relay_tasks[1].source_tid = 3
    /\ relay_tasks[2].source_tid = 2
    /\ relay_tasks[2].attempts = 1

ResetStep(r) == relay[r].pc = "reset" /\ relay'[r].pc = "enqueue"

\* C5: the reset at the start of a run sets every task in status POSTING to
\* PENDING and changes no other task; when the run comes to its claim the
\* tasks it has reset are PENDING and the claim selects them, if the run's
\* category is theirs and no limit cuts them off.
C5_ResetStuckReturnsPosting ==
    /\ [][\A r \in RelayProcs : ResetStep(r) =>
             /\ Len(relay_tasks') = Len(relay_tasks)
             /\ \A i \in TaskIds(relay_tasks) :
                   IF relay_tasks[i].status = "POSTING"
                   THEN relay_tasks'[i] = [relay_tasks[i] EXCEPT !.status = "PENDING"]
                   ELSE relay_tasks'[i] = relay_tasks[i]]_vars
    /\ [](relay[1].pc = "claim" =>
             \A i \in relay[1].reset_ids :
                /\ relay_tasks[i].status = "PENDING"
                /\ (Truthy(relay[1].category)
                       => relay_tasks[i].category = relay[1].category)
                   => i \in SeqRange(ClaimSelect(relay_tasks, threads, -1,
                                                 relay[1].include_error,
                                                 relay[1].category)))

\* C5 happens: the second run has claimed a task that it had reset, a task
\* claimed three times: before the first run, in it, and in the second.
C5_Witness ==
    /\ relay_runs = 2
    /\ relay[1].pc \in {"dry", "drain"}
    /\ \E i \in relay[1].reset_ids \cap RowIds(relay[1].rows) :
          /\ relay_tasks[i].status = "POSTING"
          /\ relay_tasks[i].attempts = 3

ClaimReturned(r) == relay[r].pc \in {"dry", "drain", "done", "failed"}

\* C2: two claim calls that ran at the same time on two connections have
\* returned no task id in common.
C2_AsStated ==
    \A p, q \in RelayProcs :
        (p # q /\ q \in relay[p].peers /\ ClaimReturned(p) /\ ClaimReturned(q))
        => RowIds(relay[p].rows) \cap RowIds(relay[q].rows) = {}

RunEnded(r) == relay[r].pc \in {"done", "failed"}

\* C9: when a dry run has ended, every task it claimed has the status, the
\* attempts and the last_error the claim found it with.
C9_AsStated ==
    \A r \in RelayProcs :
        (relay[r].dry_run /\ RunEnded(r)) =>
            \A k \in 1..Len(relay[r].rows) :
                LET row == relay[r].rows[k]
                IN  /\ relay_tasks[row.id].status = row.status
                    /\ relay_tasks[row.id].attempts = row.attempts
                    /\ relay_tasks[row.id].last_error = row.last_error

\* C10: when a run that posts has ended, it has handled every task it
\* claimed and each of them is DONE, ERROR or SKIPPED.
C10_AsStated ==
    \A r \in RelayProcs :
        (~relay[r].dry_run /\ RunEnded(r) /\ relay[r].rows # <<>>) =>
            /\ relay[r].idx > Len(relay[r].rows)
            /\ \A k \in 1..Len(relay[r].rows) :
                  relay_tasks[relay[r].rows[k].id].status
                      \in {"DONE", "ERROR", "SKIPPED"}

\* the tasks a claim of run r may take from the store as it is: status PENDING
\* (or ERROR with include_error) and the category of the filter
Eligible(r) ==
    {i \in TaskIds(relay_tasks) :
        /\ relay_tasks[i].status \in
              (IF relay[r].include_error THEN {"PENDING", "ERROR"} ELSE {"PENDING"})
        /\ Truthy(relay[r].category) => relay_tasks[i].category = relay[r].category}

SourceCreateTime(i) == threads[relay_tasks[i].source_tid].create_time

\* the step that ends the claim of run r
ClaimEnds(r) == relay[r].pc = "claim_update" /\ relay'[r].pc # "claim_update"

\* C26 as stated: a claim returns exactly the min(limit, n) eligible tasks of
\* oldest source create time; after the call each returned task is POSTING
\* with attempts raised by exactly one over the value the call met, and no
\* other task is changed; no task met as POSTING, DONE or SKIPPED is returned.
C26_AsStated ==
    [][\A r \in RelayProcs : ClaimEnds(r) =>
          LET rows == relay[r].rows
              ids == RowIds(rows)
          IN  /\ ids \subseteq Eligible(r)
              /\ Cardinality(ids) = Min(relay[r].max_posts, Cardinality(Eligible(r)))
              /\ \A i \in ids, j \in Eligible(r) \ ids :
                    SourceCreateTime(i) <= SourceCreateTime(j)
              /\ \A k \in 1..Len(rows) :
                    /\ rows[k].status \notin {"POSTING", "DONE", "SKIPPED"}
                    /\ relay_tasks'[rows[k].id].status = "POSTING"
                    /\ relay_tasks'[rows[k].id].attempts = rows[k].attempts + 1
              /\ \A i \in TaskIds(relay_tasks) \ ids :
                    relay_tasks'[i] = relay_tasks[i]]_vars

\* C31: every relay task the enqueue phase inserts has a source thread in
\* the forum of the run, of role normal, with a non-empty category and
\* inside the lookback window, and a target thread stored as collection in
\* the same forum, with the same category and with the ISO year and week of
\* the source's create time.
C31_EnqueuedTasksMatch ==
    [][\A r \in RelayProcs : EnqueueStep(r) =>
          \A i \in TaskIds(relay_tasks') \ TaskIds(relay_tasks) :
              LET src == threads[relay_tasks'[i].source_tid]
                  tgt == threads[relay_tasks'[i].target_tid]
                  yw == _iso_year_week(src.create_time)
              IN  /\ src # NoRow
                  /\ src.fname = relay[r].forum
                  /\ src.thread_role = "normal"
                  /\ Truthy(src.category)
                  /\ src.create_time >=
                        RelayNowTs - relay[r].lookback_days * SecondsPerDay
                  /\ tgt # NoRow
                  /\ tgt.thread_role = "collection"
                  /\ tgt.fname = relay[r].forum
                  /\ tgt.category = src.category
                  /\ tgt.collection_year = yw[1]
                  /\ tgt.collection_week = yw[2]]_vars

\* C31 witness: the enqueue phase has inserted a task while a labeled thread
\* of another forum and a labeled thread of another week are stored.
C31_Witness ==
    /\ relay[1].pc = "claim"
    /\ relay[1].enqueued = 1
    /\ threads[2].fname = relay[1].forum
    /\ threads[3].fname # relay[1].forum
    /\ \E i \in TaskIds(relay_tasks) :
          relay_tasks[i].source_tid = 2 /\ relay_tasks[i].attempts = 0

\* the thread s is labeled, of role normal, stored in the forum of run r
Labeled(r, s) ==
    /\ threads[s] # NoRow
    /\ threads[s].fname = relay[r].forum
    /\ threads[s].thread_role # "collection"
    /\ Truthy(threads[s].category)

\* the aggregation thread of s that run r looks up, 0 when none is stored
TargetOf(r, s) ==
    LET yw == _iso_year_week(threads[s].create_time)
    IN  find_collection_thread(threads, relay[r].forum, threads[s].category,
                               yw[1], yw[2])

\* s is inside the lookback window and the category filter of run r
Covered(r, s) ==
    /\ threads[s].create_time >=
          RelayNowTs - relay[r].lookback_days * SecondsPerDay
    /\ Truthy(relay[r].category) => threads[s].category = relay[r].category

HasTask(tasks, s) == \E i \in TaskIds(tasks) : tasks[i].source_tid = s

\* the run q has ended after its enqueue phase counted a candidate without
\* aggregation thread, s is a candidate of q and has no task
Missed(q, s) ==
    /\ relay[q].pc \in {"done", "failed"}
    /\ relay[q].missing_target > 0
    /\ Labeled(q, s)
    /\ Covered(q, s)
    /\ ~HasTask(relay_tasks, s)

\* C32 as stated: a candidate without stored aggregation thread gets no task
\* and no error record in that run, and a later run made after the
\* aggregation thread has been stored enqueues it.
C32_AsStated ==
    [][\A r \in RelayProcs : EnqueueStep(r) =>
          \A s \in Tids : Labeled(r, s) =>
              /\ (Covered(r, s) /\ TargetOf(r, s) = 0) =>
                    /\ ~HasTask(relay_tasks', s)
                    /\ relay_tasks' = relay_tasks
              /\ ((\E q \in RelayProcs \ {r} : Missed(q, s)) /\ TargetOf(r, s) # 0)
                   => HasTask(relay_tasks', s)]_vars

\* C32, amended: the later run enqueues the candidate if the candidate is
\* inside the lookback window and the category filter of that run.
C32_EnqueuedWhenCovered ==
    [][\A r \in RelayProcs : EnqueueStep(r) =>
          \A s \in Tids : Labeled(r, s) =>
              /\ (Covered(r, s) /\ TargetOf(r, s) = 0) =>
                    /\ ~HasTask(relay_tasks', s)
                    /\ relay_tasks' = relay_tasks
              /\ ((\E q \in RelayProcs \ {r} : Missed(q, s)) /\ TargetOf(r, s) # 0
                      /\ Covered(r, s))
                   => \E i \in TaskIds(relay_tasks') :
                        /\ relay_tasks'[i].source_tid = s
                        /\ relay_tasks'[i].target_tid = TargetOf(r, s)
                        /\ relay_tasks'[i].status = "PENDING"]_vars

\* C32 witness: the first run counted thread 2 as without aggregation thread
\* and left no task; the aggregation thread was stored, here by the
\* backfill; the second run has enqueued thread 2.
C32_Witness ==
    /\ relay_runs = 2
    /\ relay[1].pc \in {"done", "failed"}
    /\ relay[1].missing_target = 1
    /\ relay[1].enqueued = 0
    /\ relay[2].pc = "claim"
    /\ relay[2].enqueued = 1
    /\ relay[2].missing_target = 0
    /\ Len(relay_tasks) = 1
    /\ relay_tasks[1].source_tid = 2
    /\ relay_tasks[1].target_tid = 1
    /\ call.op = "sync_collections"

\* Repeated runs that post, on a store whose queue is empty at first: a
\* started run takes its steps, and the caller starts the next run after it
RelayArgsLive ==
    {a \in RelayArgs : /\ ~a.dry_run
                       /\ a.bduss # ""
                       /\ a.mode = "link"
                       /\ a.lookback_days = 30}

InitRelayLive ==
    /\ forum_state = NoRow
    /\ threads \in {w \in RelayWorlds : w[1] # NoRow}
    /\ images = EmptyImages
    /\ relay_tasks = <<>>
    /\ crawl = IdleCrawl
    /\ crawl_runs = 0
    /\ relay = [p \in RelayProcs |-> IdleRelay]
    /\ relay_runs = 0
    /\ call = NoCall
    /\ jobs = <<>>
    /\ runners = <<>>
    /\ loop = RunningLoop

NextRelayLive ==
    \/ \E a \in RelayArgsLive : RelayRun(1, a)
    \/ RelayReset(1)
    \/ RelayEnqueue(1)
    \/ RelayClaimSelect(1)
    \/ RelayClaimUpdate(1)
    \/ \E o \in PostOutcomes : RelayDrainTask(1, o)
    \/ RelayReturn(1)

SpecRelayLive == InitRelayLive /\ [][NextRelayLive]_vars /\ WF_vars(NextRelayLive)

Terminal == {"DONE", "ERROR", "SKIPPED"}

InHand(q) ==
    IF relay[q].pc \in {"dry", "drain"}
    THEN {relay[q].rows[k].id : k \in relay[q].idx..Len(relay[q].rows)}
    ELSE {}

\* C37 as stated: the reset at the start of a run leaves every task that
\* another, unfinished run has claimed as it is, so that the claim of the
\* starting run cannot select it.
C37_AsStated ==
    [][\A r \in RelayProcs : ResetStep(r) =>
          \A q \in RelayProcs \ {r} : \A i \in InHand(q) :
              /\ relay_tasks'[i] = relay_tasks[i]
              /\ relay_tasks'[i].status = "POSTING"]_vars

\* C38: a relay task that is DONE or SKIPPED keeps its status, its attempts
\* and its last_error in every step of a relay run, whatever the arguments
\* of the run.
C38_DoneSkippedAbsorbing ==
    [][\A i \in TaskIds(relay_tasks) :
          relay_tasks[i].status \in {"DONE", "SKIPPED"} =>
              /\ i \in TaskIds(relay_tasks')
              /\ relay_tasks'[i] = relay_tasks[i]]_vars

\* C38 witness: the second run, with include_error, has reset and claimed
\* the task of thread 3 beside the DONE task of thread 2, which a first run
\* had left alone as well.
C38_Witness ==
    /\ relay_runs = 2
    /\ relay[1].include_error
    /\ relay[1].pc \in {"dry", "drain"}
    /\ Len(relay_tasks) = 2
    /\ relay_tasks[1].status = "DONE"
    /\ relay_tasks[2].status = "POSTING"
    /\ relay_tasks[2].attempts = 2
    /\ relay[1].reset_ids = {2}

\* C39 as stated: no two relay tasks have the same source thread, whatever
\* crawl runs, backfill runs and relay runs have written.
C39_AsStated ==
    \A i, k \in TaskIds(relay_tasks) :
        relay_tasks[i].source_tid = relay_tasks[k].source_tid => i = k

ClaimStep(r) == relay[r].pc = "claim_update" /\ relay'[r].pc # "claim_update"

\* C40 as stated: the tasks a run for forum F claims have their source and
\* target threads in F, and the claim leaves the PENDING tasks of every
\* other forum as they are.
C40_AsStated ==
    [][\A r \in RelayProcs : ClaimStep(r) =>
          /\ \A i \in RowIds(relay[r].rows) :
                /\ threads[relay_tasks[i].source_tid].fname = relay[r].forum
                /\ relay_tasks[i].target_forum = relay[r].forum
          /\ \A i \in TaskIds(relay_tasks) :
                (/\ relay_tasks[i].status = "PENDING"
                 /\ relay_tasks[i].target_forum # relay[r].forum)
                => relay_tasks'[i] = relay_tasks[i]]_vars

-----------------------------------------------------------------------------
(* Direct calls of Repo.release_relay_tasks on a stored queue *)

RepoReleaseRelayTasks(ids) ==
    /\ ids \subseteq TaskIds(relay_tasks)
    /\ relay_tasks' = (IF ids = {} THEN relay_tasks
                       ELSE release_relay_tasks(relay_tasks, ids))
    /\ call' = [op |-> "release_relay_tasks", ids |-> ids, before |-> relay_tasks]
    /\ UNCHANGED <<forum_state, threads, images, crawl, crawl_runs, relay,
                   relay_runs, jobs, runners, loop>>

NextRelease == \E ids \in SUBSET (1..MaxTid) : RepoReleaseRelayTasks(ids)

SpecRelease == InitRelay /\ [][NextRelease]_vars

\* C27 as stated: release(ids) changes only tasks that are POSTING; a task
\* whose id is passed while it is DONE, ERROR or SKIPPED keeps its status.
C27_AsStated ==
    call.op = "release_relay_tasks" =>
        \A i \in TaskIds(call.before) :
            call.before[i].status # "POSTING" => relay_tasks[i] = call.before[i]

-----------------------------------------------------------------------------
(* Claims on the watermark and the upserts of a crawl run *)

\* the pages the run has fetched, and the positions of the listing on them
Fetched == {i \in 1..Len(crawl.listing) : i <= Min(crawl.pn, crawl.max_pages) * PageSize}

RECURSIVE MaxOf(_)
MaxOf(S) == IF S = {} THEN 0
            ELSE LET x == CHOOSE y \in S : TRUE IN Max(x, MaxOf(S \ {x}))

\* C18 as stated: the step that ends a run whose first page was empty leaves
\* the forum's record as it is, last_crawl_ts and updated_at.
C18_AsStated ==
    [][(crawl.pc = "finish" /\ crawl.exit = "empty" /\ crawl.pn = 1)
          => forum_state' = forum_state]_vars

\* C19 as stated: the watermark a completed run has written is the largest of
\* the watermark it read and the create times of all items on the pages it
\* fetched, the pinned ones too.
C19_AsStated ==
    (crawl.pc = "done" /\ crawl.wrote) =>
        LastTs(forum_state) =
            Max(InitMaxSeen(crawl.last_crawl_ts),
                MaxOf({crawl.listing[i].create_time : i \in Fetched}))

\* C20 as stated: when the loop of a run has ended, every item on the pages
\* it fetched that is newer than the window start, pinned or not, has been
\* upserted with its image tasks, and no other item has.
C20_AsStated ==
    crawl.pc \in {"finish", "done"} =>
        \A i \in Fetched :
            LET th == crawl.listing[i]
            IN  IF th.create_time > crawl.since_ts
                THEN /\ th.tid \in crawl.upserted
                     /\ threads[th.tid] # NoRow
                     /\ \A k \in 1..Len(th.imgs) : images[<<th.tid, th.imgs[k]>>] # NoRow
                ELSE th.tid \notin crawl.upserted

\* C21: a crawl run fetches at most max_pages pages and then ends, whatever
\* the pages hold: every pass of the loop fetches a page numbered at most
\* max_pages, and it either ends the loop or moves to the next page number.
C21_AtMostMaxPagesFetches ==
    [][(crawl.pc = "loop" /\ crawl' # crawl) =>
          /\ crawl.pn <= crawl.max_pages
          /\ crawl'.pc \in {"loop", "finish", "aborted"}
          /\ crawl'.pc = "loop" => crawl'.pn = crawl.pn + 1]_vars

\* C21 witness: a run has left the loop at the page ceiling after a first
\* page that held only pinned items.
C21_Witness ==
    /\ crawl.pc = "finish"
    /\ crawl.exit = "max_pages"
    /\ crawl.max_pages = MaxPagesBound
    /\ crawl.pn = crawl.max_pages + 1
    /\ PageObjs(crawl.listing, 1) # <<>>
    /\ NonPinned(PageObjs(crawl.listing, 1)) = {}

\* C22 as stated: after a page that signals no further pages (has_more
\* false) the run fetches no further page, whatever the page holds.
C22_AsStated ==
    [][CrawlPage(FALSE) => crawl'.pc # "loop"]_vars

-----------------------------------------------------------------------------
(* api/job_manager.py *)

\* the job type submitted: the one whose operation can end in every way
JobTypes == {"relay_labeled_threads"}

\* How the operation of a job can end: it returns, it raises an Exception
\* (a failed fetch, a TypeError), it raises CancelledError, a BaseException,
\* at an await, or, the relay run only, it raises SystemExit.
OperationOutcomes(job_type) ==
    IF job_type = "relay_labeled_threads"
    THEN {"return", "Exception", "CancelledError", "SystemExit"}
    ELSE {"return", "Exception", "CancelledError"}

\* Job(job_id=..., job_type=..., status="queued", created_at=time.time())
Job(job_id, job_type, t) ==
    [job_id |-> job_id, job_type |-> job_type, status |-> "queued",
     created_at |-> t, started_at |-> NullInt, finished_at |-> NullInt,
     error |-> Null, result |-> Null]

\* _runner up to the await of the operation
runner_begin(job, t) == [job EXCEPT !.status = "running", !.started_at = t]

runner_end_requeue(job, outcome, t) ==
    LET ended == IF outcome = "return"
                 THEN [job EXCEPT !.result = "ok", !.status = "succeeded"]
                 ELSE IF outcome = "Exception"
                 THEN [job EXCEPT !.error = "traceback", !.status = "queued"]
                 ELSE job
    IN  [ended EXCEPT !.finished_at = t]

\* _runner from the end of the operation: try, except Exception, finally
runner_end(job, outcome, t) ==
    LET ended == IF outcome = "return"
                 THEN [job EXCEPT !.result = "ok", !.status = "succeeded"]
                 ELSE IF outcome = "Exception"
                 THEN [job EXCEPT !.error = "traceback", !.status = "failed"]
                 ELSE job
    IN  [ended EXCEPT !.finished_at = t]

ListCap == 200

list_oldest_first(tbl, limit) ==
    LET age == [i \in 1..Len(tbl) |-> tbl[i].created_at]
        order == OrderBy(1..Len(tbl), age)
        n == Max(1, Min(limit, ListCap))
    IN  [k \in 1..Min(n, Len(tbl)) |-> tbl[order[k]]]

\* JobManager.list: a stable sort, newest first, cut at max(1, min(limit, 200))
list(tbl, limit) ==
    LET age == [i \in 1..Len(tbl) |-> 0 - tbl[i].created_at]
        order == OrderBy(1..Len(tbl), age)
        n == Max(1, Min(limit, ListCap))
    IN  [k \in 1..Min(n, Len(tbl)) |-> tbl[order[k]]]

JobsUnchanged ==
    UNCHANGED <<forum_state, threads, images, relay_tasks, crawl, crawl_runs, relay, relay_runs>>

\* JobManager.create
JobCreate(job_type) ==
    /\ loop.state = "running"
    /\ Len(jobs) < MaxJobs
    /\ LET job == Job(Len(jobs) + 1, job_type, loop.time)
       IN  /\ jobs' = Append(jobs, job)
           /\ call' = [op |-> "create", value |-> job]
    /\ runners' = Append(runners, "scheduled")
    /\ UNCHANGED loop
    /\ JobsUnchanged

\* the loop starts the oldest scheduled _runner task: lines 46-49
JobRunnerStart(j) ==
    /\ loop.state = "running"
    /\ j \in 1..Len(jobs)
    /\ runners[j] = "scheduled"
    /\ \A i \in 1..(j - 1) : runners[i] # "scheduled"
    /\ jobs' = [jobs EXCEPT ![j] = runner_begin(jobs[j], loop.time)]
    /\ runners' = [runners EXCEPT ![j] = "awaiting"]
    /\ call' = NoCall
    /\ UNCHANGED loop
    /\ JobsUnchanged

\* the operation of job j ends: lines 49-55.  SystemExit leaves the task
\* and stops the loop.
JobOperationEnds(j, outcome) ==
    /\ loop.state = "running"
    /\ j \in 1..Len(jobs)
    /\ runners[j] = "awaiting"
    /\ outcome \in OperationOutcomes(jobs[j].job_type)
    /\ jobs' = [jobs EXCEPT ![j] = runner_end(jobs[j], outcome, loop.time)]
    /\ runners' = [runners EXCEPT ![j] = IF outcome = "return" THEN "returned"
                                          ELSE "raised"]
    /\ loop' = IF outcome = "SystemExit" THEN [loop EXCEPT !.state = "closing"]
               ELSE loop
    /\ call' = NoCall
    /\ JobsUnchanged

\* the stopped loop cancels the tasks that are left: a _runner that waits
\* gets CancelledError at its await, one that has not started never runs
JobCancelled(j) ==
    /\ loop.state = "closing"
    /\ j \in 1..Len(jobs)
    /\ runners[j] \in {"scheduled", "awaiting"}
    /\ jobs' = IF runners[j] = "awaiting"
               THEN [jobs EXCEPT ![j] = runner_end(jobs[j], "CancelledError", loop.time)]
               ELSE jobs
    /\ runners' = [runners EXCEPT ![j] = IF runners[j] = "awaiting" THEN "raised"
                                          ELSE "cancelled"]
    /\ call' = NoCall
    /\ UNCHANGED loop
    /\ JobsUnchanged

\* time.time() moves on
JobTick ==
    /\ loop.time < MaxTime
    /\ loop' = [loop EXCEPT !.time = loop.time + 1]
    /\ UNCHANGED <<jobs, runners, call>>
    /\ JobsUnchanged

\* JobManager.get; NoRow stands for None
JobGet(job_id) ==
    /\ loop.state = "running"
    /\ call' = [op |-> "get", job_id |-> job_id,
                value |-> IF job_id \in 1..Len(jobs) THEN jobs[job_id] ELSE NoRow]
    /\ UNCHANGED <<jobs, runners, loop>>
    /\ JobsUnchanged

\* JobManager.list
JobList(limit) ==
    /\ loop.state = "running"
    /\ call' = [op |-> "list", limit |-> limit, value |-> list(jobs, limit)]
    /\ UNCHANGED <<jobs, runners, loop>>
    /\ JobsUnchanged

JobIds == 1..MaxJobs
ListLimits == {0, 1, ListCap + 1}

InitJobs == InitCrawl

NextJobs ==
    \/ \E ty \in JobTypes : JobCreate(ty)
    \/ \E j \in JobIds : JobRunnerStart(j)
    \/ \E j \in JobIds, o \in OperationOutcomes("relay_labeled_threads") :
          JobOperationEnds(j, o)
    \/ \E j \in JobIds : JobCancelled(j)
    \/ JobTick
    \/ \E id \in JobIds : JobGet(id)
    \/ \E n \in ListLimits : JobList(n)

SpecJobs == InitJobs /\ [][NextJobs]_vars

-----------------------------------------------------------------------------
(* Claims on the job tracker *)

StatusMoves ==
    {<<"queued", "running">>, <<"running", "succeeded">>, <<"running", "failed">>}

\* C14: the status of a job changes only from queued to running and from
\* running to succeeded or failed; a new job is queued; no job disappears.
C14_StatusMovesForward ==
    [][/\ Len(jobs') >= Len(jobs)
       /\ \A j \in 1..Len(jobs) :
             jobs'[j].status # jobs[j].status
                => <<jobs[j].status, jobs'[j].status>> \in StatusMoves
       /\ \A j \in (Len(jobs) + 1)..Len(jobs') : jobs'[j].status = "queued"]_vars

\* C14 happens: one job has succeeded and another has failed.
C14_Witness ==
    \E i, j \in 1..Len(jobs) :
        /\ jobs[i].status = "succeeded" /\ jobs[i].started_at # NullInt
        /\ jobs[j].status = "failed" /\ jobs[j].started_at # NullInt

\* C15 as stated: a job whose operation has returned is succeeded with its
\* result, and a job whose operation has raised is failed with an error.
C15_AsStated ==
    \A j \in 1..Len(jobs) :
        /\ runners[j] = "returned"
              => jobs[j].status = "succeeded" /\ jobs[j].result # Null
        /\ runners[j] = "raised"
              => jobs[j].status = "failed" /\ jobs[j].error # Null

ConsistentJob(job) ==
    /\ job.status = "queued" => job.started_at = NullInt /\ job.finished_at = NullInt
    /\ job.status = "running" => job.started_at # NullInt /\ job.finished_at = NullInt
    /\ job.finished_at # NullInt <=> job.status \in {"succeeded", "failed"}
    /\ job.status = "failed" => job.error # Null
    /\ job.status = "succeeded" => job.error = Null

\* C16 as stated: every job record that get or list returns is consistent.
C16_AsStated ==
    /\ (call.op = "get" /\ call.value # NoRow) => ConsistentJob(call.value)
    /\ call.op = "list" => \A k \in 1..Len(call.value) : ConsistentJob(call.value[k])

\* what list returned, against the jobs of the tracker: the jobs returned
\* are jobs of the tracker, newest first, and none left out is newer
NewestFirst(value) ==
    /\ \A k \in 1..Len(value) :
          /\ value[k].job_id \in 1..Len(jobs)
          /\ value[k] = jobs[value[k].job_id]
    /\ \A k \in 1..(Len(value) - 1) : value[k].created_at >= value[k + 1].created_at
    /\ \A j \in 1..Len(jobs) :
          (\A k \in 1..Len(value) : value[k].job_id # j)
             => \A k \in 1..Len(value) : jobs[j].created_at <= value[k].created_at

GetFinds ==
    (call.op = "get" /\ call.job_id \in 1..Len(jobs)) => call.value = jobs[call.job_id]

\* C17 as stated: list returns the jobs newest first, at most limit of them,
\* leaving out none newer than one it returns, and get finds every job
\* that was submitted.
C17_AsStated ==
    /\ call.op = "list" =>
          /\ NewestFirst(call.value)
          /\ Len(call.value) <= call.limit
    /\ GetFinds

\* C17: list returns the jobs newest first, at most max(1, limit) of them,
\* leaving out none newer than one it returns; no job leaves the tracker or
\* changes its id, and get finds every job that was submitted.
C17_ListNewestFirst ==
    /\ [](call.op = "list" =>
             /\ NewestFirst(call.value)
             /\ Len(call.value) <= Max(1, call.limit))
    /\ [](GetFinds)
    /\ [][/\ Len(jobs') >= Len(jobs)
          /\ \A j \in 1..Len(jobs) : jobs'[j].job_id = jobs[j].job_id]_vars

\* C17 happens: of two jobs created at different times, list(1) has
\* returned the later one alone.
C17_Witness ==
    /\ call.op = "list"
    /\ call.limit = 1
    /\ Len(jobs) = 2
    /\ jobs[1].created_at < jobs[2].created_at
    /\ Len(call.value) = 1
    /\ call.value[1].job_id = 2

-----------------------------------------------------------------------------
(* Claims on the outcome of a post *)

\* the final statuses of the mapping, each with the last_error it records
MappedOutcome(task) ==
    \/ task.status = "DONE" /\ task.last_error = Null
    \/ task.status = "ERROR" /\ task.last_error # Null
    \/ task.status = "SKIPPED" /\ task.last_error # Null

-----------------------------------------------------------------------------
(* Image tasks: Repo.upsert_image_task and jobs/download_images.py *)

\* the methods class Repo defines
RepoMethods ==
    {"conn", "close", "ensure_schema", "_table_columns", "_ensure_column",
     "_migrate", "get_forum_state", "set_forum_state", "upsert_thread",
     "set_thread_category", "mark_thread_as_collection",
     "find_collection_thread", "query_threads_for_relay_candidates",
     "upsert_image_task", "get_image_urls_for_tid",
     "reset_stuck_relay_posting", "insert_relay_task", "claim_relay_tasks",
     "release_relay_tasks", "mark_relay_done", "mark_relay_skipped",
     "mark_relay_error"}

\* the Repo methods download_images calls, in the order it reaches them
DownloadRepoCalls ==
    <<"ensure_schema", "reset_stuck_downloads", "claim_image_tasks",
      "mark_image_done", "mark_image_error", "close">>

\* the first call of a sequence that class Repo does not define, 0 if none
FirstUndefinedCall(calls) ==
    IF \A k \in 1..Len(calls) : calls[k] \in RepoMethods THEN 0
    ELSE CHOOSE k \in 1..Len(calls) :
            /\ calls[k] \notin RepoMethods
            /\ \A j \in 1..(k - 1) : calls[j] \in RepoMethods

ImageKeys == Tids \X Urls

ImagesUnchanged ==
    UNCHANGED <<forum_state, threads, relay_tasks, crawl, crawl_runs, relay,
                relay_runs, jobs, runners, loop>>

\* repo.upsert_image_task(img) as the crawl calls it for a sighted image
RepoUpsertImageTask(img) ==
    /\ images' = upsert_image_task(images, img)
    /\ call' = [op |-> "upsert_image_task", key |-> <<img.tid, img.url>>,
                before |-> images[<<img.tid, img.url>>]]
    /\ ImagesUnchanged

\* download_images: the run reaches repo.reset_stuck_downloads() at line 95,
\* which class Repo does not define; the AttributeError leaves the function
\* before any image row is read or written
DownloadImagesRun ==
    /\ FirstUndefinedCall(DownloadRepoCalls) = 2
    /\ images' = images
    /\ call' = [op |-> "download_images", key |-> <<0, "">>,
                before |-> [raised |-> "AttributeError",
                            at |-> DownloadRepoCalls[2]]]
    /\ ImagesUnchanged

\* an images row as the table holds it: a DONE row carries its local_path
StoredImageRows ==
    {NoRow, NewImageRow,
     [status |-> "DOWNLOADING", local_path |-> Null],
     [status |-> "DONE", local_path |-> "path"],
     [status |-> "ERROR", local_path |-> Null]}

InitImages ==
    /\ forum_state = NoRow
    /\ threads = EmptyThreads
    /\ images \in [ImageKeys -> StoredImageRows]
    /\ relay_tasks = <<>>
    /\ crawl = IdleCrawl
    /\ crawl_runs = 0
    /\ relay = [p \in RelayProcs |-> IdleRelay]
    /\ relay_runs = 0
    /\ call = NoCall
    /\ jobs = <<>>
    /\ runners = <<>>
    /\ loop = RunningLoop

NextImages ==
    \/ \E key \in ImageKeys : RepoUpsertImageTask([tid |-> key[1], url |-> key[2]])
    \/ DownloadImagesRun

SpecImages == InitImages /\ [][NextImages]_vars

\* C25: once an image task is DONE, every crawl upsert of its (tid, url) and
\* every download run leaves its status DONE and its local_path as it was.
C25_DoneImageStays ==
    [][\A key \in ImageKeys :
          (images[key] # NoRow /\ images[key].status = "DONE")
              => images'[key] = images[key]]_vars

\* C25 witness: the (tid, url) of a DONE image with a local_path has been
\* upserted again, and the row is as it was.
C25_Witness ==
    /\ call.op = "upsert_image_task"
    /\ call.before # NoRow
    /\ call.before.status = "DONE"
    /\ call.before.local_path # Null
    /\ images[call.key] = call.before

-----------------------------------------------------------------------------
(* Direct calls of detect_collection_from_title *)

\* the year/week matches a title can hold: none, one or two, with weeks on
\* both sides of the accepted range
WeekDigits == {0, 1, MaxWeek, MaxWeek + 1}

MatchSeqs ==
    {<<>>} \cup {<<YearWeek(2026, w)>> : w \in WeekDigits}
           \cup {<<YearWeek(2026, w), YearWeek(2027, v)>> : w \in WeekDigits, v \in WeekDigits}

DetectTitles == {Title(ms, kws) : ms \in MatchSeqs, kws \in SUBSET {"weekly", "digest"}}

\* rules a configuration can hold: none, the configured ones, a category
\* without keywords or with an empty keyword before another
DetectRules ==
    {<<>>,
     CollectionRules,
     <<[cat |-> "B", keywords |-> <<"digest">>], [cat |-> "A", keywords |-> <<"weekly">>]>>,
     <<[cat |-> "A", keywords |-> <<>>], [cat |-> "B", keywords |-> <<"", "digest">>]>>}

DetectCall(title, rules) ==
    /\ call' = [op |-> "detect_collection_from_title", title |-> title,
                rules |-> rules,
                value |-> detect_collection_from_title(title, rules)]
    /\ UNCHANGED <<forum_state, threads, images, relay_tasks, crawl, crawl_runs,
                   relay, relay_runs, jobs, runners, loop>>

NextDetect == \E title \in DetectTitles, rules \in DetectRules : DetectCall(title, rules)

SpecDetect == InitCrawl /\ [][NextDetect]_vars

\* the positions of the rules that have a non-empty keyword the title contains
MatchingRules(title, rules) ==
    {i \in 1..Len(rules) :
        \E k \in 1..Len(rules[i].keywords) :
            rules[i].keywords[k] # "" /\ rules[i].keywords[k] \in title.kws}

\* the year/week patterns of a title whose week is in 1..53
ValidMatches(title) ==
    {k \in 1..Len(title.matches) :
        title.matches[k].week >= 1 /\ title.matches[k].week <= MaxWeek}

\* C28 as stated: detect returns is_collection = true exactly when the title
\* holds a year/week pattern with a week in 1..53 and contains a keyword of
\* some category; the category is then the first one in configured order
\* with a keyword in the title, and year and week are those of the title.
C28_AsStated ==
    call.op = "detect_collection_from_title" =>
        LET hit == MatchingRules(call.title, call.rules)
            valid == ValidMatches(call.title)
        IN  /\ call.value[1] = (valid # {} /\ hit # {})
            /\ call.value[1] =>
                  /\ \E i \in hit : /\ \A j \in hit : i <= j
                                     /\ call.value[2] = call.rules[i].cat
                  /\ \E k \in valid : /\ call.value[3] = call.title.matches[k].year
                                       /\ call.value[4] = call.title.matches[k].week

-----------------------------------------------------------------------------
(* build_reply_content, by the lengths of the strings it handles *)

\* content.strip()[:1800]
ContentCeiling == 1800
\* short_limit = min(max_text_chars, 120)
ShortLimit == 120
\* len of strftime("%Y-%m-%d %H:%M:%S")
FmtTsLen == 19
\* len("https://tieba.baidu.com/p/")
LinkPrefixLen == 26
\* the fixed characters of the header: the six labels and the six newlines
HeaderFixedLen == 33
\* len("uid:")
UidPrefixLen == 4
\* len of the labels that open the excerpt (full, link) and the image links
FullLabelLen == 7
LinkLabelLen == 5
ImagesLabelLen == 7
EllipsisLen == 1

\* a string: leading whitespace, the part from its first to its last
\* non-whitespace character, trailing whitespace
Str(lead, core, trail) == [lead |-> lead, core |-> core, trail |-> trail]
StrLen(s) == s.lead + s.core + s.trail
\* len(s.strip())
Strip(s) == s.core

RECURSIVE Digits(_)
\* len(str(n)) for n >= 0
Digits(n) == IF n < 10 THEN 1 ELSE 1 + Digits(n \div 10)

\* len(s[:k]) for len(s) = n
SliceLen(n, k) == IF k >= 0 THEN Min(n, k) ELSE Max(n + k, 0)

\* if len(t) > limit: t = t[:limit] + "…"
CutText(t, limit) == IF t > limit THEN SliceLen(t, limit) + EllipsisLen ELSE t

RECURSIVE JoinLen(_)
\* len("\n".join(imgs)) for the lengths of a non-empty list
JoinLen(imgs) ==
    IF Len(imgs) = 1 THEN imgs[1] ELSE imgs[1] + 1 + JoinLen(Tail(imgs))

TruncateNone(n) == n

\* len(s[:1800])
Truncate(n) == Min(n, ContentCeiling)

\* The content build_reply_content returns: its length, the length before
\* the final cut, the characters of the excerpt in it and the number of
\* image links the function put into it.
build_reply_content(source_tid, title, author_name, author_id, text, image_urls, mode, max_text_chars, max_images) ==
    LET author == IF StrLen(author_name) > 0 THEN Strip(author_name)
                  ELSE UidPrefixLen + Digits(author_id)
        header == HeaderFixedLen + Strip(title) + author + Digits(author_id)
                    + FmtTsLen + LinkPrefixLen + 2 * Digits(source_tid)
        t == Strip(text)
        excerpt == IF t = 0 THEN 0
                   ELSE IF mode = "full" THEN CutText(t, max_text_chars)
                   ELSE CutText(t, Min(max_text_chars, ShortLimit))
        label == IF t = 0 THEN 0
                 ELSE IF mode = "full" THEN FullLabelLen ELSE LinkLabelLen
        imgs == IF mode = "full" /\ Len(image_urls) > 0 /\ max_images > 0
                THEN SubSeq(image_urls, 1, Min(max_images, Len(image_urls)))
                ELSE <<>>
        links == IF imgs = <<>> THEN 0 ELSE ImagesLabelLen + JoinLen(imgs)
        body == label + excerpt + links
        stripped == IF body = 0 THEN header - 1 ELSE header + body
        length == Truncate(stripped)
    IN  [length |-> length,
         built |-> stripped,
         excerpt |-> Min(excerpt, Max(0, length - header - label)),
         image_links |-> Len(imgs)]

\* arguments of a call, by length
ContentTitles == {Str(0, 0, 0), Str(1, 10, 1), Str(0, 2000, 0)}
ContentAuthors == {Str(0, 0, 0), Str(0, 5, 1)}
ContentTexts ==
    {Str(0, 0, 0), Str(2, 0, 0), Str(1, 100, 0), Str(0, ShortLimit, 0),
     Str(0, ShortLimit + 1, 0), Str(0, 2000, 1)}
ContentImageUrls == {<<>>, <<30>>, <<30, 40, 50, 60>>, <<1000, 1000>>}
MaxTextCharsChoices == {-1, 0, 100, ShortLimit, 300, 3000}
MaxImagesChoices == {0, 1, 3}

BuildReplyContent(title, author_name, text, image_urls, mode, max_text_chars, max_images) ==
    /\ call = NoCall
    /\ call' = [op |-> "build_reply_content", title |-> title,
                author_name |-> author_name, text |-> text,
                image_urls |-> image_urls, mode |-> mode,
                max_text_chars |-> max_text_chars, max_images |-> max_images,
                value |-> build_reply_content(12, title, author_name, 7, text,
                              image_urls, mode, max_text_chars, max_images)]
    /\ UNCHANGED <<forum_state, threads, images, relay_tasks, crawl, crawl_runs,
                   relay, relay_runs, jobs, runners, loop>>

NextContent ==
    \E title \in ContentTitles, author_name \in ContentAuthors,
       text \in ContentTexts, image_urls \in ContentImageUrls,
       mode \in {"link", "full"}, max_text_chars \in MaxTextCharsChoices,
       max_images \in MaxImagesChoices :
        BuildReplyContent(title, author_name, text, image_urls, mode, max_text_chars, max_images)

SpecContent == InitCrawl /\ [][NextContent]_vars

\* C29: the content build_reply_content returns is never longer than 1800
\* characters, whatever the mode and the lengths of title, author name, body
\* text and image list.
C29_ContentWithinCeiling ==
    call.op = "build_reply_content" => call.value.length <= ContentCeiling

\* C29 witness: a call whose content was longer than 1800 characters before
\* the final cut has returned 1800 characters.
C29_Witness ==
    /\ call.op = "build_reply_content"
    /\ call.value.built > ContentCeiling
    /\ call.value.length = ContentCeiling

\* C30 as stated: in mode link the excerpt placed in the content is at most
\* 120 characters long, ellipsis included, for every body text and every
\* max_text_chars, and the content holds no image link.
C30_AsStated ==
    (call.op = "build_reply_content" /\ call.mode = "link") =>
        /\ call.value.excerpt <= ShortLimit
        /\ call.value.image_links = 0

-----------------------------------------------------------------------------
(* tieba/client.py: TiebaAPI.get_threads_page_with_retry *)

MaxRequestAttempts == 6

BackoffCap == 30

\* what one call of _get_threads_page can end in: the page, or an exception
\* that is raised or handed back in the err field of the answer
Exceptions ==
    {"asyncio.TimeoutError", "aiohttp.ClientConnectorError", "TiebaServerError"}

\* the classes an exception is an instance of
Bases(exc) ==
    IF exc = "asyncio.TimeoutError" THEN {"asyncio.TimeoutError", "TimeoutError", "OSError", "Exception"}
    ELSE IF exc = "aiohttp.ClientConnectorError" THEN {"aiohttp.ClientConnectorError", "aiohttp.ClientError", "OSError", "Exception"}
    ELSE {exc, "Exception"}

RETRYABLE_EXC ==
    {"asyncio.TimeoutError", "TimeoutError", "aiohttp.ClientError", "OSError",
     "ConnectionError"}

AnyExceptionRetryable(exc) == "Exception" \in Bases(exc)

\* except RETRYABLE_EXC
IsRetryable(exc) == Bases(exc) \cap RETRYABLE_EXC # {}

AttemptOutcomes ==
    {[page |-> TRUE, exc |-> Null, via |-> Null]}
    \cup {[page |-> FALSE, exc |-> e, via |-> v] :
             e \in Exceptions, v \in {"raised", "err"}}

\* line 73 without the random fraction
BackoffBase(attempt) == Min(2 ^ (attempt - 1), BackoffCap)

\* line 59
UseWs(try_ws, attempt, request_attempts) ==
    try_ws /\ attempt <= Max(1, request_attempts \div 2)

FetchUnchanged ==
    UNCHANGED <<forum_state, threads, images, relay_tasks, crawl, crawl_runs,
                relay, relay_runs, jobs, runners, loop>>

\* lines 55-58: the call and the first test of the for loop
FetchStart(request_attempts, try_ws) ==
    /\ call = NoCall
    /\ call' = [op |-> "get_threads_page_with_retry",
                request_attempts |-> request_attempts, try_ws |-> try_ws,
                pc |-> IF 1 <= request_attempts THEN "attempt" ELSE "exhausted",
                attempt |-> 1, made |-> <<>>, slept |-> <<>>, result |-> Null]
    /\ FetchUnchanged

\* lines 59-88: one attempt and what its answer leads to
FetchAttempt(out) ==
    /\ call.op = "get_threads_page_with_retry"
    /\ call.pc = "attempt"
    /\ LET use_ws == UseWs(call.try_ws, call.attempt, call.request_attempts)
           made == Append(call.made, [attempt |-> call.attempt, use_ws |-> use_ws,
                                      out |-> out])
       IN  call' =
             IF out.page
             THEN [call EXCEPT !.made = made, !.pc = "returned", !.result = "threads"]
             ELSE IF IsRetryable(out.exc)
             THEN [call EXCEPT !.made = made, !.pc = "sleep",
                               !.slept = Append(call.slept, BackoffBase(call.attempt))]
             ELSE [call EXCEPT !.made = made, !.pc = "raised", !.result = out.exc]
    /\ FetchUnchanged

\* line 84 and the next test of the for loop
FetchSleepEnds ==
    /\ call.op = "get_threads_page_with_retry"
    /\ call.pc = "sleep"
    /\ call' = [call EXCEPT
                   !.attempt = call.attempt + 1,
                   !.pc = IF call.attempt + 1 <= call.request_attempts
                          THEN "attempt" ELSE "exhausted"]
    /\ FetchUnchanged

\* lines 90-91
FetchExhausted ==
    /\ call.op = "get_threads_page_with_retry"
    /\ call.pc = "exhausted"
    /\ call' = [call EXCEPT
                   !.pc = "raised",
                   !.result = IF call.made = <<>> THEN "AssertionError"
                              ELSE call.made[Len(call.made)].out.exc]
    /\ FetchUnchanged

NextFetch ==
    \/ \E n \in 0..MaxRequestAttempts, ws \in BOOLEAN : FetchStart(n, ws)
    \/ \E out \in AttemptOutcomes : FetchAttempt(out)
    \/ FetchSleepEnds
    \/ FetchExhausted

SpecFetch == InitCrawl /\ [][NextFetch]_vars

TransportFailures == {"asyncio.TimeoutError", "aiohttp.ClientConnectorError"}

Fetching == call # NoCall /\ call.op = "get_threads_page_with_retry"

\* C33: an attempt follows only a retryable transport failure of the
\* attempt before it and a wait of min(2^(attempt-1), 30) seconds; a fatal
\* protocol failure and a success end the call at once; the call makes at
\* most request_attempts attempts.
C33_RetryOnlyTransport ==
    Fetching =>
        /\ Len(call.made) <= call.request_attempts
        /\ \A k \in 1..Len(call.made) :
              /\ call.made[k].attempt = k
              /\ k < Len(call.made) =>
                    /\ ~call.made[k].out.page
                    /\ call.made[k].out.exc \in TransportFailures
                    /\ Len(call.slept) >= k
        /\ \A k \in 1..Len(call.slept) : call.slept[k] = Min(2 ^ (k - 1), 30)
        /\ (Len(call.made) > 0 /\ call.made[Len(call.made)].out.page)
              => call.pc = "returned" /\ call.result = "threads"
        /\ (Len(call.made) > 0
              /\ ~call.made[Len(call.made)].out.page
              /\ call.made[Len(call.made)].out.exc \notin TransportFailures)
              => /\ call.pc = "raised"
                 /\ call.result = call.made[Len(call.made)].out.exc
        /\ call.pc \in {"returned", "raised"} => ~ENABLED (\E out \in AttemptOutcomes : FetchAttempt(out))

\* C33 witness: six attempts were made, the first five ended in transport
\* failures and were followed by waits of 1, 2, 4, 8 and 16 seconds, the
\* sixth in a protocol failure handed back in err, which ended the call.
C33_Witness ==
    /\ Fetching
    /\ call.request_attempts = 6
    /\ Len(call.made) = 6
    /\ call.slept = <<1, 2, 4, 8, 16>>
    /\ call.made[6].out.exc = "TiebaServerError"
    /\ call.made[6].out.via = "err"
    /\ call.pc = "raised"
====
